---- MODULE Spec2Model ----
(***************************************************************************)
(* Session lifecycle of the minishell PTY server                           *)
(* (public/minishell/server.js): admission (rate limiter, per-origin       *)
(* session cap), container provisioning (create, start, attach),           *)
(* registration in activeSessions, the session timeout, the ws 'close'     *)
(* cleanup and the catch block of the connection handler, the relay        *)
(* between the channel and the container stream, the periodic              *)
(* cleanupOldContainers sweep and the SIGTERM handler.                     *)
(*                                                                         *)
(* One step of the model is one run-to-completion slice of the Node.js     *)
(* event loop: the synchronous code between two awaits of a handler, or    *)
(* one callback.  An awaited docker call is a pending call whose result    *)
(* (and effect on the backend) arrives in a later step.                    *)
(***************************************************************************)
EXTENDS Integers, Sequences, FiniteSets, TLC

\* ------------------------------------------------------------ constants
MAX_SESSIONS_PER_IP == 3
SESSION_TIMEOUT == 300000
RATE_WINDOW == 60000
RATE_BUDGET == 10
\* age beyond which cleanupOldContainers removes a container
RETENTION == 3600000

\* ------------------------------------------------------------ bounds
\* Connections the lifecycle specification (Spec) follows at once.
MainSlots == 1
\* Connections the admission specification (SpecCap) follows at once.
CapSlots == 4
\* Connections the rate-limit specification (SpecRate) follows at once.
RateSlots == 3
\* Connection attempts in one run of SpecCap.
CapAttempts == 5
\* Connection attempts in one run of Spec and of SpecRate.
MaxAttempts == 11
\* Clock advances in one run of Spec (each of SESSION_TIMEOUT ms).
MainTicks == 1
\* Clock advances in one run of SpecRate (each of RATE_WINDOW ms).
RateTicks == 2
\* Connections the relay specification (SpecRelay) follows at once.
RelaySlots == 1
\* Connections the reaper specification (SpecReap) follows at once.
ReapSlots == 1
\* Connections the isolation specification (SpecIsolate) follows at once.
IsoSlots == 2
\* Connection attempts in one run of SpecIsolate.
IsoAttempts == 2
\* Clock advances in one run of SpecReap (each of RETENTION ms).
ReapTicks == 2
\* Connections the shutdown specification (SpecShutdown) follows at once.
ShutSlots == 1
\* Client frames handled plus bytes read from the attached streams in one
\* run of SpecRelay.
MaxRelayed == 2

Max2(a, b) == IF a >= b THEN a ELSE b
Slots ==
  1 .. Max2(Max2(Max2(MainSlots, RelaySlots), Max2(CapSlots, RateSlots)),
            Max2(Max2(ReapSlots, ShutSlots), IsoSlots))
Origins == {"ipA", "ipB"}

VARIABLES
  now,            \* Date.now()
  wsLimiter,      \* Map ip -> {count, resetTime}
  activeSessions, \* Map sessionId -> {conn, ip, startTime}
  pc,             \* per connection: where its 'connection' handler stands
  ws,             \* per connection: ws.readyState
  clientIp,       \* per connection: the handler's clientIp
  container,      \* per connection: its container in the docker backend
  stream,         \* per connection: the attached stream
  timeout,        \* per connection: the setTimeout timer
  td,             \* per connection: where its ws 'close' handler stands
  log,            \* per connection: what the server did, in order (history)
  lastAttempt,    \* the latest connection attempt and its outcome (history)
  monitor,        \* per origin: passes of the limiter in a 60 s window (history)
  relay,          \* per connection: frames and chunks relayed (history)
  createdAt,      \* per connection: the 'created-at' label of its container
  sessionId,      \* per connection: the handler's sessionId (a registry key)
  sig,            \* the process: where its SIGTERM handler stands, or crashed
  reap            \* cleanupOldContainers: where the sweep stands

vars == <<now, wsLimiter, activeSessions, pc, ws, clientIp, container, stream,
          timeout, td, log, lastAttempt, monitor, relay, createdAt, sessionId,
          sig, reap>>

\* ------------------------------------------------------------ helpers
MapPut(m, k, v) == [x \in (DOMAIN m) \cup {k} |-> IF x = k THEN v ELSE m[x]]
MapDel(m, k) == [x \in (DOMAIN m) \ {k} |-> m[x]]
RECURSIVE Count(_, _)
Count(seq, e) ==
  IF seq = <<>> THEN 0
  ELSE (IF Head(seq) = e THEN 1 ELSE 0) + Count(Tail(seq), e)
Has(seq, e) == \E i \in 1 .. Len(seq) : seq[i] = e
\* position of the first e in seq, 0 when there is none
First(seq, e) ==
  IF Has(seq, e) THEN CHOOSE i \in 1 .. Len(seq) :
                        seq[i] = e /\ \A j \in 1 .. (i - 1) : seq[j] # e
  ELSE 0
Provisioning == {"creating", "starting", "attaching"}

NoTimer == [state |-> "unset", deadline |-> 0]
NoAttempt == [n |-> 0, ip |-> "none", outcome |-> "none", frames |-> <<>>,
              closed |-> FALSE]
NoWindow == [open |-> -1, passes |-> 0]
\* resizes: container.resize calls made; resized: those that have returned;
\* resizeErrs: those whose rejection the .catch has logged; lost: the
\* frames that arrived before ws.on('message') was installed.
NoRelay == [frames |-> 0, rx |-> << >>, written |-> << >>, chunks |-> << >>,
            sent |-> << >>, caught |-> 0, resizes |-> 0, resized |-> 0,
            resizeErrs |-> 0, lost |-> 0]
\* snapshot: the sessions registered when the signal arrived (history).
NoSig == [pc |-> "idle", cur |-> 0, visited |-> {}, snapshot |-> {}]
\* One sweep: the containers a removal was issued for, those removed,
\* whether the catch ran, and the clock and the containers ever created when
\* the sweep began (history).
NoRun == [ran |-> FALSE, tried |-> {}, removed |-> {}, err |-> FALSE,
          startNow |-> 0, startMade |-> {}]
NoSweep == [pc |-> "idle", caller |-> "none", todo |-> {}, cur |-> 0,
            run |-> NoRun, prev |-> NoRun]

Init ==
  /\ now = 0
  /\ wsLimiter = << >>
  /\ activeSessions = << >>
  /\ pc = [s \in Slots |-> "idle"]
  /\ ws = [s \in Slots |-> "NONE"]
  /\ clientIp = [s \in Slots |-> "none"]
  /\ container = [s \in Slots |-> "none"]
  /\ stream = [s \in Slots |-> "none"]
  /\ timeout = [s \in Slots |-> NoTimer]
  /\ td = [s \in Slots |-> "none"]
  /\ log = [s \in Slots |-> << >>]
  /\ lastAttempt = NoAttempt
  /\ monitor = [o \in Origins |-> NoWindow]
  /\ relay = [s \in Slots |-> NoRelay]
  /\ createdAt = [s \in Slots |-> -1]
  /\ sessionId = [s \in Slots |-> 0]
  /\ sig = NoSig
  /\ reap = NoSweep

\* checkRateLimit with the budget test off by one (count > 10).
checkRateLimitOffByOne(ip) ==
  LET known == ip \in DOMAIN wsLimiter
      got == IF known THEN wsLimiter[ip]
             ELSE [count |-> 0, resetTime |-> now + RATE_WINDOW]
      userLimit == IF now > got.resetTime
                   THEN [count |-> 0, resetTime |-> now + RATE_WINDOW]
                   ELSE got
  IN IF userLimit.count > RATE_BUDGET
     THEN [ok |-> FALSE,
           limiter |-> IF known THEN MapPut(wsLimiter, ip, userLimit)
                       ELSE wsLimiter]
     ELSE [ok |-> TRUE,
           limiter |-> MapPut(wsLimiter, ip,
                              [userLimit EXCEPT !.count = @ + 1])]

\* checkRateLimit counting the attempts it rejects as well.
checkRateLimitCountsRejects(ip) ==
  LET known == ip \in DOMAIN wsLimiter
      got == IF known THEN wsLimiter[ip]
             ELSE [count |-> 0, resetTime |-> now + RATE_WINDOW]
      userLimit == IF now > got.resetTime
                   THEN [count |-> 0, resetTime |-> now + RATE_WINDOW]
                   ELSE got
  IN [ok |-> userLimit.count < RATE_BUDGET,
      limiter |-> MapPut(wsLimiter, ip, [userLimit EXCEPT !.count = @ + 1])]

\* ------------------------------------------------------------ admission
\* checkRateLimit(ip): the result and the limiter map it leaves behind.
checkRateLimit(ip) ==
  LET known == ip \in DOMAIN wsLimiter
      got == IF known THEN wsLimiter[ip]
             ELSE [count |-> 0, resetTime |-> now + RATE_WINDOW]
      userLimit == IF now > got.resetTime
                   THEN [count |-> 0, resetTime |-> now + RATE_WINDOW]
                   ELSE got
  IN IF userLimit.count >= RATE_BUDGET
     THEN [ok |-> FALSE,
           limiter |-> IF known THEN MapPut(wsLimiter, ip, userLimit)
                       ELSE wsLimiter]
     ELSE [ok |-> TRUE,
           limiter |-> MapPut(wsLimiter, ip,
                              [userLimit EXCEPT !.count = @ + 1])]

\* Array.from(activeSessions.values()).filter(s => s.ip === clientIp)
userSessions(ip) == {k \in DOMAIN activeSessions : activeSessions[k].ip = ip}

\* The cap check with > for >=.
CapReachedStrict(ip) == Cardinality(userSessions(ip)) > MAX_SESSIONS_PER_IP

CapReached(ip) == Cardinality(userSessions(ip)) >= MAX_SESSIONS_PER_IP

\* A rejecting branch that forgets ws.close().
RejectedNoClose(ip, why) ==
  [n |-> lastAttempt.n + 1, ip |-> ip, outcome |-> why,
   frames |-> <<"error">>, closed |-> FALSE]

\* What a rejecting branch does with the socket: one error frame, ws.close().
Rejected(ip, why) ==
  [n |-> lastAttempt.n + 1, ip |-> ip, outcome |-> why,
   frames |-> <<"error">>, closed |-> TRUE]

\* The spec's fixed window, kept beside the code's: opened by the first pass
\* after the previous window's 60 s, counting the passes since.
Observe(ip) ==
  LET m == monitor[ip]
  IN IF m.open < 0 \/ now > m.open + RATE_WINDOW
     THEN [open |-> now, passes |-> 1]
     ELSE [m EXCEPT !.passes = @ + 1]

\* Date.now().toString(36) + Math.random().toString(36).substr(2): the id
\* is a function of the clock and of the random number.  Ids are named by
\* the connection that drew them first: connection s draws a fresh id (s),
\* or, when clash, the id of a connection made in the same millisecond whose
\* random number came out the same.
SessionIds(s, clash) ==
  IF clash
  THEN {sessionId[u] : u \in {v \in Slots : pc[v] # "idle" /\ createdAt[v] = now}}
  ELSE {s}

\* wss.on('connection'), up to the first await (docker.createContainer).
\* S: the connections the specification follows; an admitted attempt takes
\* the first free one, a rejected attempt needs none.
Connect(S, ip, maxAttempts, clash) ==
  LET rl == checkRateLimit(ip)
      free == {s \in S : pc[s] = "idle"}
      s == CHOOSE x \in free : \A y \in free : x <= y
      n == lastAttempt.n + 1
  IN /\ lastAttempt.n < maxAttempts
     /\ clash => rl.ok /\ ~CapReached(ip)
     /\ wsLimiter' = rl.limiter
     /\ IF ~rl.ok
        THEN /\ lastAttempt' = Rejected(ip, "rate")
             /\ UNCHANGED <<pc, ws, clientIp, log, monitor, createdAt, sessionId>>
        ELSE /\ monitor' = [monitor EXCEPT ![ip] = Observe(ip)]
             /\ IF CapReached(ip)
                THEN /\ lastAttempt' = Rejected(ip, "cap")
                     /\ UNCHANGED <<pc, ws, clientIp, log, createdAt, sessionId>>
                ELSE /\ free # {}
                     /\ lastAttempt' = [n |-> n, ip |-> ip, outcome |-> "admit",
                                        frames |-> << >>, closed |-> FALSE]
                     /\ pc' = [pc EXCEPT ![s] = "creating"]
                     /\ ws' = [ws EXCEPT ![s] = "OPEN"]
                     /\ clientIp' = [clientIp EXCEPT ![s] = ip]
                     /\ createdAt' = [createdAt EXCEPT ![s] = now]
                     /\ \E id \in SessionIds(s, clash) :
                          sessionId' = [sessionId EXCEPT ![s] = id]
                     /\ log' = [log EXCEPT ![s] =
                          IF \E u \in Slots : /\ clientIp[u] = ip
                                              /\ pc[u] \in Provisioning
                          THEN <<"admitRace">> ELSE <<"admit">>]
     /\ UNCHANGED <<now, activeSessions, container, stream, timeout, td>>
     /\ UNCHANGED <<relay, sig, reap>>

\* ------------------------------------------------------------ provisioning
\* A catch block that reports the error and never removes the container.
CatchBlockNoRemove(s, evs) ==
  LET open == ws[s] = "OPEN"
  IN /\ ws' = [ws EXCEPT ![s] = IF open THEN "CLOSING" ELSE @]
     /\ pc' = [pc EXCEPT ![s] = "done"]
     /\ log' = [log EXCEPT ![s] =
          @ \o evs \o (IF open THEN <<"error", "close">> ELSE << >>)]

\* The catch block, up to its await: the error frame and ws.close() when the
\* socket is open, then container.remove({force: true}) when create returned.
\* evs: what the try block logged in the same slice before it threw.
CatchBlock(s, evs) ==
  LET open == ws[s] = "OPEN"
      made == container[s] # "none"
  IN /\ ws' = [ws EXCEPT ![s] = IF open THEN "CLOSING" ELSE @]
     /\ pc' = [pc EXCEPT ![s] = IF made THEN "catchRemove" ELSE "done"]
     /\ log' = [log EXCEPT ![s] =
          @ \o evs \o (IF open THEN <<"error", "close">> ELSE << >>)
            \o (IF made THEN <<"rmForce">> ELSE << >>)]

\* docker.createContainer returns; on success container.start() is called.
CreateReturn(s, ok) ==
  /\ pc[s] = "creating"
  /\ IF ok
     THEN /\ container' = [container EXCEPT ![s] = "created"]
          /\ pc' = [pc EXCEPT ![s] = "starting"]
          /\ log' = [log EXCEPT ![s] = Append(@, "createOk")]
          /\ UNCHANGED ws
     ELSE /\ CatchBlock(s, <<"createFail">>)
          /\ UNCHANGED container
  /\ UNCHANGED <<relay, createdAt, sessionId, sig, reap>>
  /\ UNCHANGED <<now, wsLimiter, activeSessions, clientIp, stream, timeout, td,
                 lastAttempt, monitor>>

\* container.start() returns; on success container.attach() is called.
StartReturn(s, ok) ==
  /\ pc[s] = "starting"
  /\ IF ok /\ container[s] = "created"
     THEN /\ container' = [container EXCEPT ![s] = "running"]
          /\ pc' = [pc EXCEPT ![s] = "attaching"]
          /\ log' = [log EXCEPT ![s] = Append(@, "startOk")]
          /\ UNCHANGED ws
     ELSE /\ CatchBlock(s, <<"startFail">>)
          /\ UNCHANGED container
  /\ UNCHANGED <<relay, createdAt, sessionId, sig, reap>>
  /\ UNCHANGED <<now, wsLimiter, activeSessions, clientIp, stream, timeout, td,
                 lastAttempt, monitor>>

\* The entry activeSessions.set stores for the session.
\* conn stands for the container, stream and ws objects of the entry: those
\* of connection s.
SessionInfo(s) == [conn |-> s, ip |-> clientIp[s], startTime |-> now]

\* The rest of the try block once ws.send('connected') has returned: the data,
\* message, close and error handlers are installed and the timer is set.
Wired(s, evs) ==
  /\ pc' = [pc EXCEPT ![s] = "active"]
  /\ timeout' = [timeout EXCEPT ![s] =
       [state |-> "pending", deadline |-> now + SESSION_TIMEOUT]]
  /\ log' = [log EXCEPT ![s] = @ \o evs]
  /\ UNCHANGED ws

\* A handler that stores the session whatever container.attach() returned.
AttachReturnAlways(s, ok, throws) ==
  /\ pc[s] = "attaching"
  /\ stream' = [stream EXCEPT ![s] = "open"]
  /\ activeSessions' = MapPut(activeSessions, sessionId[s], SessionInfo(s))
  /\ Wired(s, <<IF ok /\ container[s] = "running" THEN "attachOk"
                ELSE "attachFail", "registered">>)
  /\ UNCHANGED <<relay, createdAt, sessionId, sig, reap>>
  /\ UNCHANGED <<now, wsLimiter, clientIp, container, td, lastAttempt, monitor>>

\* container.attach() returns; on success the session is stored, 'connected'
\* is sent and the handlers are installed, all in one slice.  ws.send on a
\* socket that is not OPEN either throws or drops the frame (it depends on the
\* version of the ws package): throws chooses.
AttachReturn(s, ok, throws) ==
  /\ pc[s] = "attaching"
  /\ IF ok /\ container[s] = "running"
     THEN /\ stream' = [stream EXCEPT ![s] = "open"]
          /\ activeSessions' = MapPut(activeSessions, sessionId[s], SessionInfo(s))
          /\ IF ws[s] = "OPEN"
             THEN Wired(s, <<"attachOk", "registered", "connected">>)
             ELSE IF throws
                  THEN /\ CatchBlock(s, <<"attachOk", "registered", "sendThrow">>)
                       /\ UNCHANGED timeout
                  ELSE Wired(s, <<"attachOk", "registered">>)
     ELSE /\ CatchBlock(s, <<"attachFail">>)
          /\ UNCHANGED <<stream, activeSessions, timeout>>
  /\ UNCHANGED <<relay, createdAt, sessionId, sig, reap>>
  /\ UNCHANGED <<now, wsLimiter, clientIp, container, td, lastAttempt, monitor>>

\* container.remove({force: true}) of the catch block returns; its error is
\* swallowed.  A forced removal succeeds on any container the backend holds.
CatchRemoveReturn(s, fault) ==
  /\ pc[s] = "catchRemove"
  /\ pc' = [pc EXCEPT ![s] = "done"]
  /\ IF ~fault /\ container[s] \in {"created", "running", "exited"}
     THEN /\ container' = [container EXCEPT ![s] = "removed"]
          /\ log' = [log EXCEPT ![s] = Append(@, "rmForceOk")]
     ELSE /\ log' = [log EXCEPT ![s] =
               Append(@, IF fault THEN "rmForceFault" ELSE "rmForceRefused")]
          /\ UNCHANGED container
  /\ UNCHANGED <<relay, createdAt, sessionId, sig, reap>>
  /\ UNCHANGED <<now, wsLimiter, activeSessions, ws, clientIp, stream, timeout,
                 td, lastAttempt, monitor>>

\* ------------------------------------------------------------ the session
\* A setTimeout callback that sends the notice whatever the socket's state.
TimeoutFireAlways(s) ==
  /\ timeout[s].state = "pending"
  /\ now >= timeout[s].deadline
  /\ timeout' = [timeout EXCEPT ![s].state = "fired"]
  /\ ws' = [ws EXCEPT ![s] = IF @ = "OPEN" THEN "CLOSING" ELSE @]
  /\ log' = [log EXCEPT ![s] = @ \o <<"notice", "close">>]
  /\ UNCHANGED <<relay, createdAt, sessionId, sig, reap>>
  /\ UNCHANGED <<now, wsLimiter, activeSessions, pc, clientIp, container, stream,
                 td, lastAttempt, monitor>>

\* The setTimeout callback: the notice and ws.close() when the socket is open.
TimeoutFire(s) ==
  /\ timeout[s].state = "pending"
  /\ now >= timeout[s].deadline
  /\ timeout' = [timeout EXCEPT ![s].state = "fired"]
  /\ IF ws[s] = "OPEN"
     THEN /\ ws' = [ws EXCEPT ![s] = "CLOSING"]
          /\ log' = [log EXCEPT ![s] = @ \o <<"notice", "close">>]
     ELSE UNCHANGED <<ws, log>>
  /\ UNCHANGED <<relay, createdAt, sessionId, sig, reap>>
  /\ UNCHANGED <<now, wsLimiter, activeSessions, pc, clientIp, container, stream,
                 td, lastAttempt, monitor>>

\* A stream error handler that runs the cleanup itself, unguarded.
StreamErrorTeardown(s) ==
  /\ pc[s] = "active"
  /\ stream[s] = "open"
  /\ stream' = [stream EXCEPT ![s] = "errored"]
  /\ timeout' = [timeout EXCEPT ![s].state =
       IF @ = "pending" THEN "cleared" ELSE @]
  /\ td' = [td EXCEPT ![s] = "killing"]
  /\ log' = [log EXCEPT ![s] = @ \o <<"teardown", "streamEnd">>]
  /\ UNCHANGED <<relay, createdAt, sessionId, sig, reap>>
  /\ UNCHANGED <<now, wsLimiter, activeSessions, pc, ws, clientIp, container,
                 lastAttempt, monitor>>

\* stream.on('error'): the error is logged.  The stream itself is broken.
StreamError(s) ==
  /\ pc[s] = "active"
  /\ stream[s] = "open"
  /\ stream' = [stream EXCEPT ![s] = "errored"]
  /\ UNCHANGED <<relay, createdAt, sessionId, sig, reap>>
  /\ UNCHANGED <<now, wsLimiter, activeSessions, pc, ws, clientIp, container,
                 timeout, td, log, lastAttempt, monitor>>

\* The ws 'close' handler, up to its first await: clearTimeout, stream.end(),
\* then container.kill() is called.
CloseHandler(s) ==
  /\ timeout' = [timeout EXCEPT ![s].state =
       IF @ = "pending" THEN "cleared" ELSE @]
  /\ stream' = [stream EXCEPT ![s] = IF @ = "open" THEN "ended" ELSE @]
  /\ td' = [td EXCEPT ![s] = "killing"]
  /\ log' = [log EXCEPT ![s] = @ \o <<"teardown", "streamEnd">>]

\* The socket reaches CLOSED and the ws package emits 'close', once.  The
\* event runs the close handler when it is installed (line 184) and is lost
\* otherwise.
WsClosed(s) ==
  /\ ws[s] \in {"OPEN", "CLOSING"}
  /\ ws' = [ws EXCEPT ![s] = "CLOSED"]
  /\ IF pc[s] = "active"
     THEN CloseHandler(s)
     ELSE UNCHANGED <<timeout, stream, td, log>>
  /\ UNCHANGED <<relay, createdAt, sessionId, sig, reap>>
  /\ UNCHANGED <<now, wsLimiter, activeSessions, pc, clientIp, container,
                 lastAttempt, monitor>>

\* The client starts the closing handshake: readyState leaves OPEN before the
\* 'close' event is emitted.
ClientClose(s) ==
  /\ ws[s] = "OPEN"
  /\ ws' = [ws EXCEPT ![s] = "CLOSING"]
  /\ UNCHANGED <<relay, createdAt, sessionId, sig, reap>>
  /\ UNCHANGED <<now, wsLimiter, activeSessions, pc, clientIp, container, stream,
                 timeout, td, log, lastAttempt, monitor>>

\* activeSessions.delete(sessionId), the last statement of the close handler.
Unregister(s, evs) ==
  /\ activeSessions' = MapDel(activeSessions, sessionId[s])
  /\ td' = [td EXCEPT ![s] = "done"]
  /\ log' = [log EXCEPT ![s] = @ \o evs \o <<"unregistered">>]

\* A close handler that deletes the registry entry as soon as the kill has
\* succeeded, before the removal.
KillReturnUnregisters(s, fault) ==
  /\ td[s] = "killing"
  /\ activeSessions' = MapDel(activeSessions, sessionId[s])
  /\ IF ~fault /\ container[s] = "running"
     THEN /\ container' = [container EXCEPT ![s] = "exited"]
          /\ td' = [td EXCEPT ![s] = "removing"]
          /\ log' = [log EXCEPT ![s] = @ \o <<"killOk", "unregistered">>]
     ELSE /\ td' = [td EXCEPT ![s] = "done"]
          /\ log' = [log EXCEPT ![s] =
               @ \o <<IF fault THEN "killFault" ELSE "killRefused",
                      "unregistered">>]
          /\ UNCHANGED container
  /\ UNCHANGED <<relay, createdAt, sessionId, sig, reap>>
  /\ UNCHANGED <<now, wsLimiter, pc, ws, clientIp, stream, timeout, lastAttempt,
                 monitor>>

\* container.kill() of the close handler returns.  The backend refuses to
\* kill a container that is not running, and any call may fail for a reason
\* of the backend's own (fault); on success container.remove() is called, on
\* failure the catch logs and the remove is skipped.
KillReturn(s, fault) ==
  /\ td[s] = "killing"
  /\ IF ~fault /\ container[s] = "running"
     THEN /\ container' = [container EXCEPT ![s] = "exited"]
          /\ td' = [td EXCEPT ![s] = "removing"]
          /\ log' = [log EXCEPT ![s] = Append(@, "killOk")]
          /\ UNCHANGED activeSessions
     ELSE /\ Unregister(s, <<IF fault THEN "killFault" ELSE "killRefused">>)
          /\ UNCHANGED container
  /\ UNCHANGED <<relay, createdAt, sessionId, sig, reap>>
  /\ UNCHANGED <<now, wsLimiter, pc, ws, clientIp, stream, timeout, lastAttempt,
                 monitor>>

\* A close handler that calls container.remove() again when it has failed.
RemoveReturnRetries(s, fault) ==
  /\ td[s] = "removing"
  /\ IF ~fault /\ container[s] \in {"created", "exited"}
     THEN /\ container' = [container EXCEPT ![s] = "removed"]
          /\ Unregister(s, <<"removeOk">>)
     ELSE /\ log' = [log EXCEPT ![s] =
               IF Count(@, "removeFault") < 2
               THEN Append(@, "removeFault") ELSE @]
          /\ UNCHANGED <<container, activeSessions, td>>
  /\ UNCHANGED <<relay, createdAt, sessionId, sig, reap>>
  /\ UNCHANGED <<now, wsLimiter, pc, ws, clientIp, stream, timeout, lastAttempt,
                 monitor>>

\* container.remove() of the close handler returns.  Without force it
\* succeeds on a container that is not running.
RemoveReturn(s, fault) ==
  /\ td[s] = "removing"
  /\ IF ~fault /\ container[s] \in {"created", "exited"}
     THEN /\ container' = [container EXCEPT ![s] = "removed"]
          /\ Unregister(s, <<"removeOk">>)
     ELSE /\ Unregister(s, <<IF fault THEN "removeFault" ELSE "removeRefused">>)
          /\ UNCHANGED container
  /\ UNCHANGED <<relay, createdAt, sessionId, sig, reap>>
  /\ UNCHANGED <<now, wsLimiter, pc, ws, clientIp, stream, timeout, lastAttempt,
                 monitor>>

\* ------------------------------------------------------------ environment
\* The shell in the container exits: the container stops, the stream ends.
ContainerExit(s) ==
  /\ pc[s] = "active"
  /\ container[s] = "running"
  /\ container' = [container EXCEPT ![s] = "exited"]
  /\ stream' = [stream EXCEPT ![s] = IF @ = "open" THEN "ended" ELSE @]
  /\ UNCHANGED <<relay, createdAt, sessionId, sig, reap>>
  /\ UNCHANGED <<now, wsLimiter, activeSessions, pc, ws, clientIp, timeout, td,
                 log, lastAttempt, monitor>>

\* Time passes.  A timer that is due runs before the clock moves on.
Tick(d, limit) ==
  /\ now + d <= limit
  /\ \A s \in Slots :
       timeout[s].state = "pending" => now < timeout[s].deadline
  /\ now' = now + d
  /\ UNCHANGED <<relay, createdAt, sessionId, sig, reap>>
  /\ UNCHANGED <<wsLimiter, activeSessions, pc, ws, clientIp, container, stream,
                 timeout, td, log, lastAttempt, monitor>>

\* ------------------------------------------------------------ relay
\* Bytes of the attached stream: 61 is 'a'; C3 A9 is the UTF-8 encoding of
\* U+00E9 (C3 the lead byte, A9 the continuation byte); EF BF BD encodes the
\* replacement character U+FFFD.  A chunk is a sequence of bytes, a text a
\* sequence of characters.
StreamBytes == {"61", "C3", "A9"}
Chunks(n) == UNION {[1 .. k -> StreamBytes] : k \in 1 .. n}

\* chunk.toString('utf8'): a well-formed sequence decodes to its character,
\* every byte that is not part of one decodes to U+FFFD.
RECURSIVE Utf8ToString(_)
Utf8ToString(bytes) ==
  IF bytes = << >> THEN << >>
  ELSE IF Head(bytes) = "61" THEN <<"a">> \o Utf8ToString(Tail(bytes))
  ELSE IF /\ Head(bytes) = "C3"
          /\ Len(bytes) >= 2
          /\ bytes[2] = "A9"
       THEN <<"U+00E9">> \o Utf8ToString(Tail(Tail(bytes)))
  ELSE <<"U+FFFD">> \o Utf8ToString(Tail(bytes))

\* The bytes stream.write(string) puts on the stream (UTF-8 encoding).
RECURSIVE Utf8FromString(_)
Utf8FromString(text) ==
  IF text = << >> THEN << >>
  ELSE (CASE Head(text) = "a" -> <<"61">>
          [] Head(text) = "U+00E9" -> <<"C3", "A9">>
          [] OTHER -> <<"EF", "BF", "BD">>) \o Utf8FromString(Tail(text))

\* Client frames, as the value JSON.parse(message) yields; parses = FALSE
\* is a message JSON.parse throws on.  data is a text, or NotAString for a
\* JSON value of another type.
NotAString == <<"not a string">>
Payloads == {<<"a">>, <<"U+00E9">>}
Frame(parses, type, data, cols, rows) ==
  [parses |-> parses, type |-> type, data |-> data, cols |-> cols,
   rows |-> rows]
ClientFrames ==
  {Frame(FALSE, "none", NotAString, 0, 0), Frame(TRUE, "ping", NotAString, 0, 0)}
  \cup {Frame(TRUE, "input", d, 0, 0) : d \in Payloads \cup {NotAString}}
  \cup {Frame(TRUE, "resize", NotAString, c, r) : c \in {0, 80}, r \in {0, 24}}

RECURSIVE SumLen(_)
SumLen(ss) == IF ss = << >> THEN 0 ELSE Len(Head(ss)) + SumLen(Tail(ss))
\* Frames handled plus bytes read by the connections 1 .. n.
RECURSIVE Relayed(_)
Relayed(n) ==
  IF n = 0 THEN 0
  ELSE relay[n].frames + SumLen(relay[n].chunks) + Relayed(n - 1)

\* A data handler that sends without looking at ws.readyState.
StreamDataAlways(s, chunk) ==
  /\ pc[s] = "active"
  /\ stream[s] = "open"
  /\ relay' = [relay EXCEPT ![s] =
       [@ EXCEPT !.chunks = Append(@, chunk),
                 !.sent = Append(@, Utf8ToString(chunk))]]
  /\ UNCHANGED <<now, wsLimiter, activeSessions, pc, ws, clientIp, container,
                 stream, timeout, td, log, lastAttempt, monitor, createdAt, sessionId,
                 sig, reap>>

\* stream.on('data'): the chunk becomes an 'output' frame when the socket is
\* open and is dropped otherwise.
StreamData(s, chunk) ==
  /\ pc[s] = "active"
  /\ stream[s] = "open"
  /\ relay' = [relay EXCEPT ![s] =
       [@ EXCEPT !.chunks = Append(@, chunk),
                 !.sent = IF ws[s] = "OPEN"
                          THEN Append(@, Utf8ToString(chunk)) ELSE @]]
  /\ UNCHANGED <<now, wsLimiter, activeSessions, pc, ws, clientIp, container,
                 stream, timeout, td, log, lastAttempt, monitor, createdAt, sessionId,
                 sig, reap>>

\* A message handler that writes the data of a frame of any type.
WsMessageAnyType(s, frame, fails) ==
  LET writes == /\ frame.parses
                /\ stream[s] = "open"
      resizes == /\ frame.parses
                 /\ frame.type = "resize"
                 /\ frame.cols # 0
                 /\ frame.rows # 0
      isText == frame.data # NotAString
      r == relay[s]
      got == IF frame.parses /\ frame.type = "input" /\ isText
             THEN Append(r.rx, frame.data) ELSE r.rx
  IN /\ pc[s] = "active"
     /\ ws[s] = "OPEN" \/ (ws[s] = "CLOSING" /\ Has(log[s], "close"))
     /\ IF ~frame.parses
        THEN /\ relay' = [relay EXCEPT ![s] =
                  [r EXCEPT !.frames = @ + 1, !.caught = @ + 1]]
             /\ UNCHANGED <<stream, log>>
        ELSE IF writes
        THEN IF ~isText
             THEN /\ log' = [log EXCEPT ![s] = Append(@, "writeThrow")]
                  /\ relay' = [relay EXCEPT ![s] =
                       [r EXCEPT !.frames = @ + 1, !.caught = @ + 1]]
                  /\ UNCHANGED stream
             ELSE IF fails
             THEN /\ log' = [log EXCEPT ![s] = Append(@, "writeError")]
                  /\ stream' = [stream EXCEPT ![s] = "errored"]
                  /\ relay' = [relay EXCEPT ![s] =
                       [r EXCEPT !.frames = @ + 1, !.rx = got]]
             ELSE /\ relay' = [relay EXCEPT ![s] =
                       [r EXCEPT !.frames = @ + 1, !.rx = got,
                                 !.written =
                                   Append(@, Utf8FromString(frame.data))]]
                  /\ UNCHANGED <<stream, log>>
        ELSE /\ relay' = [relay EXCEPT ![s] =
                  [r EXCEPT !.frames = @ + 1, !.rx = got,
                            !.resizes = IF resizes THEN @ + 1 ELSE @]]
             /\ UNCHANGED <<stream, log>>
     /\ UNCHANGED <<now, wsLimiter, activeSessions, pc, ws, clientIp,
                    container, timeout, td, lastAttempt, monitor, createdAt, sessionId,
                    sig, reap>>

\* An early frame that is kept and written to the container as it arrives.
WsMessageEarlyWritten(s, frame) ==
  /\ pc[s] \in Provisioning
  /\ ws[s] = "OPEN"
  /\ relay' = [relay EXCEPT ![s] =
       [@ EXCEPT !.lost = @ + 1,
                 !.written =
                   IF frame.parses /\ frame.type = "input"
                      /\ frame.data # NotAString
                   THEN Append(@, Utf8FromString(frame.data)) ELSE @]]
  /\ UNCHANGED <<now, wsLimiter, activeSessions, pc, ws, clientIp, container,
                 stream, timeout, td, log, lastAttempt, monitor, createdAt,
                 sessionId, sig, reap>>

\* A frame arrives while createContainer, start or attach is awaited.  The
\* socket is open and reads; it emits 'message', which has no listener before
\* line 152 runs: the frame is dropped, nothing keeps it for later.
WsMessageEarly(s, frame) ==
  /\ pc[s] \in Provisioning
  /\ ws[s] = "OPEN"
  /\ frame \in ClientFrames
  /\ relay' = [relay EXCEPT ![s] = [@ EXCEPT !.lost = @ + 1]]
  /\ UNCHANGED <<now, wsLimiter, activeSessions, pc, ws, clientIp, container,
                 stream, timeout, td, log, lastAttempt, monitor, createdAt,
                 sessionId, sig, reap>>

\* A message handler that answers a frame it does not act on with an 'error'
\* frame.
WsMessageReplies(s, frame, fails) ==
  /\ pc[s] = "active"
  /\ ws[s] = "OPEN" \/ (ws[s] = "CLOSING" /\ Has(log[s], "close"))
  /\ relay' = [relay EXCEPT ![s] = [@ EXCEPT !.frames = @ + 1]]
  /\ log' = [log EXCEPT ![s] = Append(@, "error")]
  /\ UNCHANGED <<now, wsLimiter, activeSessions, pc, ws, clientIp, container,
                 stream, timeout, td, lastAttempt, monitor, createdAt,
                 sessionId, sig, reap>>

\* ws.on('message').  The socket delivers frames while it is open and, after
\* the server's own ws.close(), until the client's close frame arrives.
\* fails: the write is accepted and fails later (the stream emits 'error',
\* which the 'error' listener logs).  A payload that is not a string makes
\* stream.write throw; the catch logs it.
WsMessage(s, frame, fails) ==
  LET writes == /\ frame.parses
                /\ frame.type = "input"
                /\ stream[s] = "open"
      resizes == /\ frame.parses
                 /\ frame.type = "resize"
                 /\ frame.cols # 0
                 /\ frame.rows # 0
      isText == frame.data # NotAString
      r == relay[s]
      got == IF frame.parses /\ frame.type = "input" /\ isText
             THEN Append(r.rx, frame.data) ELSE r.rx
  IN /\ pc[s] = "active"
     /\ ws[s] = "OPEN" \/ (ws[s] = "CLOSING" /\ Has(log[s], "close"))
     /\ IF ~frame.parses
        THEN /\ relay' = [relay EXCEPT ![s] =
                  [r EXCEPT !.frames = @ + 1, !.caught = @ + 1]]
             /\ UNCHANGED <<stream, log>>
        ELSE IF writes
        THEN IF ~isText
             THEN /\ log' = [log EXCEPT ![s] = Append(@, "writeThrow")]
                  /\ relay' = [relay EXCEPT ![s] =
                       [r EXCEPT !.frames = @ + 1, !.caught = @ + 1]]
                  /\ UNCHANGED stream
             ELSE IF fails
             THEN /\ log' = [log EXCEPT ![s] = Append(@, "writeError")]
                  /\ stream' = [stream EXCEPT ![s] = "errored"]
                  /\ relay' = [relay EXCEPT ![s] =
                       [r EXCEPT !.frames = @ + 1, !.rx = got]]
             ELSE /\ relay' = [relay EXCEPT ![s] =
                       [r EXCEPT !.frames = @ + 1, !.rx = got,
                                 !.written =
                                   Append(@, Utf8FromString(frame.data))]]
                  /\ UNCHANGED <<stream, log>>
        ELSE /\ relay' = [relay EXCEPT ![s] =
                  [r EXCEPT !.frames = @ + 1, !.rx = got,
                            !.resizes = IF resizes THEN @ + 1 ELSE @]]
             /\ UNCHANGED <<stream, log>>
     /\ UNCHANGED <<now, wsLimiter, activeSessions, pc, ws, clientIp,
                    container, timeout, td, lastAttempt, monitor, createdAt, sessionId,
                    sig, reap>>

\* A .catch of the resize call that gives the session up: error frame and
\* ws.close().
ResizeReturnFatal(s, fault) ==
  LET ok == ~fault /\ container[s] = "running"
  IN /\ relay[s].resized < relay[s].resizes
     /\ relay' = [relay EXCEPT ![s] =
          [@ EXCEPT !.resized = @ + 1,
                    !.resizeErrs = IF ok THEN @ ELSE @ + 1]]
     /\ IF ~ok /\ ws[s] = "OPEN"
        THEN /\ ws' = [ws EXCEPT ![s] = "CLOSING"]
             /\ log' = [log EXCEPT ![s] = @ \o <<"error", "close">>]
        ELSE UNCHANGED <<ws, log>>
     /\ UNCHANGED <<now, wsLimiter, activeSessions, pc, clientIp, container,
                    stream, timeout, td, lastAttempt, monitor, createdAt, sessionId,
                    sig, reap>>

\* container.resize({h, w}) returns.  The backend refuses to resize a
\* container that is not running, and the call may fail for a reason of the
\* backend's own; the rejection goes to .catch, which logs it.
ResizeReturn(s, fault) ==
  LET ok == ~fault /\ container[s] = "running"
  IN /\ relay[s].resized < relay[s].resizes
     /\ relay' = [relay EXCEPT ![s] =
          [@ EXCEPT !.resized = @ + 1,
                    !.resizeErrs = IF ok THEN @ ELSE @ + 1]]
     /\ UNCHANGED <<now, wsLimiter, activeSessions, pc, ws, clientIp,
                    container, stream, timeout, td, log, lastAttempt, monitor,
                    createdAt, sessionId, sig, reap>>

\* The ws package emits 'error' on the WebSocket when the client's bytes
\* break the protocol (a bad opcode, an unmasked frame, invalid UTF-8 in a
\* text frame, an oversized payload).  server.js installs 'message' and
\* 'close' listeners on ws and none for 'error': an 'error' emitted on an
\* EventEmitter without a listener is thrown, nothing catches it, and the
\* process dies with everything it holds in memory.
WsProtocolError(s) ==
  /\ ws[s] = "OPEN"
  /\ sig' = [sig EXCEPT !.pc = "crashed", !.cur = s]
  /\ UNCHANGED <<now, wsLimiter, activeSessions, pc, ws, clientIp, container,
                 stream, timeout, td, log, lastAttempt, monitor, relay,
                 createdAt, sessionId, reap>>

\* ------------------------------------------------------------ reaper
\* Containers the backend holds; containers ever created.
Existing(c) == container[c] \in {"created", "running", "exited"}
Made == {c \in Slots : container[c] # "none"}
\* A sweep to which no container is ever old enough.
OldNever(c) == now - createdAt[c] > RETENTION + ReapTicks * RETENTION

\* The age test with >= for >.
OldOrEqual(c) == now - createdAt[c] >= RETENTION

\* age > 3600000, the age taken from the 'created-at' label: Date.now() minus
\* the time the label's ISO string parses to.  toISOString keeps the
\* milliseconds, so the label parses to the instant it was written at.
Old(c) == now - createdAt[c] > RETENTION

\* cleanupOldContainers() is called: docker.listContainers is awaited.  One
\* sweep runs at a time.  prev: the sweep that ended when this one began.
cleanupStart(caller, prev) ==
  reap' = [pc |-> "listing", caller |-> caller, todo |-> {}, cur |-> 0,
           run |-> [NoRun EXCEPT !.ran = TRUE, !.startNow = now,
                                 !.startMade = Made],
           prev |-> prev]

\* The sweep returns; when SIGTERM's handler awaited it, process.exit(0).
\* again: the next periodic sweep begins at once, the second of two in a
\* row.  The history of a sweep is kept while its successor runs and, with
\* the successor's, after that.
cleanupEnd(run, again) ==
  IF again /\ reap.caller = "interval"
  THEN /\ cleanupStart("interval", run)
       /\ UNCHANGED sig
  ELSE /\ reap' = IF reap.prev.ran
                  THEN [reap EXCEPT !.pc = "idle", !.todo = {}, !.cur = 0,
                                    !.run = run]
                  ELSE NoSweep
       /\ sig' = IF reap.caller = "sigterm" THEN [sig EXCEPT !.pc = "exited"]
                 ELSE sig

\* The for loop up to its next await: the listed containers are visited in
\* the order of the listing (any order here), those not old enough are
\* passed over, the first old one is removed by force.
cleanupLoop(run, todo, again) ==
  LET old == {c \in todo : Old(c)}
  IN IF old = {}
     THEN cleanupEnd(run, again)
     ELSE /\ \E c \in old, skipped \in SUBSET (todo \ old) :
               reap' = [reap EXCEPT !.pc = "removing", !.cur = c,
                                    !.todo = todo \ ({c} \cup skipped),
                                    !.run = [run EXCEPT !.tried = @ \cup {c}]]
          /\ UNCHANGED sig

\* setInterval(cleanupOldContainers, 10 * 60 * 1000): a periodic sweep begins.
ReapStart ==
  /\ reap.pc = "idle"
  /\ cleanupStart("interval", NoRun)
  /\ UNCHANGED <<now, wsLimiter, activeSessions, pc, ws, clientIp, container,
                 stream, timeout, td, log, lastAttempt, monitor, relay,
                 createdAt, sessionId, sig>>

\* docker.listContainers returns the labelled containers, stopped ones
\* included, or fails (the catch logs and the sweep ends).
ReapListReturn(ok, again) ==
  /\ reap.pc = "listing"
  /\ IF ok
     THEN cleanupLoop(reap.run, {c \in Slots : Existing(c)}, again)
     ELSE cleanupEnd([reap.run EXCEPT !.err = TRUE], again)
  /\ UNCHANGED <<now, wsLimiter, activeSessions, pc, ws, clientIp, container,
                 stream, timeout, td, log, lastAttempt, monitor, relay,
                 createdAt, sessionId>>

\* A removal that reports success and leaves the container in the backend.
ReapRemoveReturnKeeps(fault, again) ==
  /\ reap.pc = "removing"
  /\ IF ~fault /\ Existing(reap.cur)
     THEN cleanupLoop([reap.run EXCEPT !.removed = @ \cup {reap.cur}],
                      reap.todo, again)
     ELSE cleanupEnd([reap.run EXCEPT !.err = TRUE], again)
  /\ UNCHANGED <<now, wsLimiter, activeSessions, pc, ws, clientIp, timeout,
                 td, log, lastAttempt, monitor, relay, createdAt, sessionId, container,
                 stream>>

\* container.remove({force: true}) of the sweep returns.  It succeeds on any
\* container the backend holds (the attached stream of a running one ends);
\* when it fails the catch around the whole loop ends the sweep.
ReapRemoveReturn(fault, again) ==
  LET c == reap.cur
  IN /\ reap.pc = "removing"
     /\ IF ~fault /\ Existing(c)
        THEN /\ container' = [container EXCEPT ![c] = "removed"]
             /\ stream' = [stream EXCEPT ![c] = IF @ = "open" THEN "ended" ELSE @]
             /\ cleanupLoop([reap.run EXCEPT !.removed = @ \cup {c}],
                            reap.todo, again)
        ELSE /\ cleanupEnd([reap.run EXCEPT !.err = TRUE], again)
             /\ UNCHANGED <<container, stream>>
     /\ UNCHANGED <<now, wsLimiter, activeSessions, pc, ws, clientIp, timeout,
                    td, log, lastAttempt, monitor, relay, createdAt, sessionId>>

\* ------------------------------------------------------------ shutdown
\* The head of the SIGTERM handler's for loop over activeSessions.entries().
\* The iterator of a Map yields the entries not yet visited that are in the
\* map when it advances, in insertion order (any order here).  For the next
\* entry: session.ws.close(), then container.kill() is awaited.  After the
\* last entry cleanupOldContainers() is awaited; the handler's sweep begins
\* when no periodic sweep is under way.
sigLoop(handler, visited, logged) ==
  LET rest == DOMAIN activeSessions \ visited
  IN IF rest = {}
     THEN /\ reap.pc = "idle"
          /\ cleanupStart("sigterm", NoRun)
          /\ sig' = [handler EXCEPT !.pc = "sweep", !.cur = 0,
                                    !.visited = visited]
          /\ ws' = ws
          /\ log' = logged
     ELSE /\ \E k \in rest :
               /\ sig' = [handler EXCEPT !.pc = "killing", !.cur = k,
                                         !.visited = visited \cup {k}]
               /\ ws' = [ws EXCEPT ![k] = IF @ = "OPEN" THEN "CLOSING" ELSE @]
               /\ log' = [logged EXCEPT ![k] =
                    @ \o (IF ws[k] = "OPEN" THEN <<"sigterm", "close">>
                          ELSE <<"sigterm">>)]
          /\ UNCHANGED reap

\* process.on('SIGTERM'): the handler starts.
Sigterm ==
  /\ sig.pc = "idle"
  /\ sigLoop([sig EXCEPT !.snapshot = DOMAIN activeSessions], {}, log)
  /\ UNCHANGED <<now, wsLimiter, activeSessions, pc, clientIp, container,
                 stream, timeout, td, lastAttempt, monitor, relay, createdAt, sessionId>>

\* session.container.kill() of the handler returns.  A kill is refused for a
\* container that is not running; the empty catch then skips the removal.
SigKillReturn(fault) ==
  LET k == sig.cur
      ok == ~fault /\ container[k] = "running"
  IN /\ sig.pc = "killing"
     /\ IF ok
        THEN /\ container' = [container EXCEPT ![k] = "exited"]
             /\ stream' = [stream EXCEPT ![k] = IF @ = "open" THEN "ended" ELSE @]
             /\ sig' = [sig EXCEPT !.pc = "removing"]
             /\ log' = [log EXCEPT ![k] = Append(@, "sigKillOk")]
             /\ UNCHANGED <<ws, reap>>
        ELSE /\ sigLoop(sig, sig.visited,
                        [log EXCEPT ![k] = Append(@,
                           IF fault THEN "sigKillFault" ELSE "sigKillRefused")])
             /\ UNCHANGED <<container, stream>>
     /\ UNCHANGED <<now, wsLimiter, activeSessions, pc, clientIp, timeout, td,
                    lastAttempt, monitor, relay, createdAt, sessionId>>

\* session.container.remove() of the handler returns.  A removal without
\* force is refused for a running container.
SigRemoveReturn(fault) ==
  LET k == sig.cur
      ok == ~fault /\ container[k] \in {"created", "exited"}
  IN /\ sig.pc = "removing"
     /\ container' = [container EXCEPT ![k] = IF ok THEN "removed" ELSE @]
     /\ sigLoop(sig, sig.visited,
                [log EXCEPT ![k] = Append(@,
                   IF ok THEN "sigRemoveOk"
                   ELSE IF fault THEN "sigRemoveFault" ELSE "sigRemoveRefused")])
     /\ UNCHANGED <<now, wsLimiter, activeSessions, pc, clientIp, stream,
                    timeout, td, lastAttempt, monitor, relay, createdAt, sessionId>>

\* The docker call the handler awaits never returns.
SigCallHangs ==
  /\ sig.pc \in {"killing", "removing"}
  /\ sig' = [sig EXCEPT !.pc = "hung"]
  /\ UNCHANGED <<now, wsLimiter, activeSessions, pc, ws, clientIp, container,
                 stream, timeout, td, log, lastAttempt, monitor, relay,
                 createdAt, sessionId, reap>>

\* process.exit(0) has not run.
Alive == sig.pc # "exited"
\* The process runs.
Up == sig.pc \notin {"exited", "crashed"}

\* ------------------------------------------------------------ specifications
\* Every connection made so far has closed.
OthersClosed == \A u \in Slots : pc[u] = "idle" \/ ws[u] = "CLOSED"

\* Spec: the whole lifecycle of MainSlots connections, each arriving when
\* the sockets of those before it have closed (their teardown may still be
\* under way), every docker call free to fail, the clock advancing by the
\* session timeout.
Next ==
  \/ \E ip \in Origins :
       OthersClosed /\ Connect(1 .. MainSlots, ip, MaxAttempts, FALSE)
  \/ \E s \in 1 .. MainSlots, ok \in BOOLEAN : CreateReturn(s, ok)
  \/ \E s \in 1 .. MainSlots, ok \in BOOLEAN : StartReturn(s, ok)
  \/ \E s \in 1 .. MainSlots, ok \in BOOLEAN, throws \in BOOLEAN :
       AttachReturn(s, ok, throws)
  \/ \E s \in 1 .. MainSlots, fault \in BOOLEAN : CatchRemoveReturn(s, fault)
  \/ \E s \in 1 .. MainSlots : TimeoutFire(s)
  \/ \E s \in 1 .. MainSlots : StreamError(s)
  \/ \E s \in 1 .. MainSlots : WsClosed(s)
  \/ \E s \in 1 .. MainSlots : ClientClose(s)
  \/ \E s \in 1 .. MainSlots, fault \in BOOLEAN : KillReturn(s, fault)
  \/ \E s \in 1 .. MainSlots, fault \in BOOLEAN : RemoveReturn(s, fault)
  \/ \E s \in 1 .. MainSlots : ContainerExit(s)
  \/ Tick(SESSION_TIMEOUT, MainTicks * SESSION_TIMEOUT)

Spec == Init /\ [][Next]_vars

\* SpecCap: the session cap under concurrent attempts.  CapSlots connections
\* of one origin, up to CapAttempts attempts, the docker calls succeeding,
\* clients free to close at any moment (a frame sent to a closed socket is
\* dropped), the clock standing still.
NextCap ==
  \/ Connect(1 .. CapSlots, "ipA", CapAttempts, FALSE)
  \/ \E s \in 1 .. CapSlots : CreateReturn(s, TRUE)
  \/ \E s \in 1 .. CapSlots : StartReturn(s, TRUE)
  \/ \E s \in 1 .. CapSlots : AttachReturn(s, TRUE, FALSE)
  \/ \E s \in 1 .. CapSlots : WsClosed(s)
  \/ \E s \in 1 .. CapSlots : KillReturn(s, FALSE)
  \/ \E s \in 1 .. CapSlots : RemoveReturn(s, FALSE)

SpecCap == Init /\ [][NextCap]_vars

\* SpecRate: admission over several rate-limit windows.  Two origins, up to
\* MaxAttempts attempts, RateSlots connections that are provisioned and stay
\* connected (the docker calls of an earlier connection returning before
\* those of a later one), the clock advancing by one window length (so that
\* an attempt can arrive exactly at a window's reset time, and after it).
InOrder(s) == \A u \in 1 .. (s - 1) : pc[u] \notin Provisioning
NextRate ==
  \/ \E ip \in Origins : Connect(1 .. RateSlots, ip, MaxAttempts, FALSE)
  \/ \E s \in 1 .. RateSlots : InOrder(s) /\ CreateReturn(s, TRUE)
  \/ \E s \in 1 .. RateSlots : InOrder(s) /\ StartReturn(s, TRUE)
  \/ \E s \in 1 .. RateSlots : InOrder(s) /\ AttachReturn(s, TRUE, FALSE)
  \/ Tick(RATE_WINDOW, RateTicks * RATE_WINDOW)

SpecRate == Init /\ [][NextRate]_vars

\* SpecRelay: the relay of an Active session.  RelaySlots connections of one
\* origin, one after the other, whose docker calls succeed, client frames of every kind (a write
\* free to fail) and shell output in chunks of any length, MaxRelayed frames
\* and bytes in all, the stream free to raise an error and the client to close.
NextRelay ==
  \/ OthersClosed /\ Connect(1 .. RelaySlots, "ipA", MaxAttempts, FALSE)
  \/ \E s \in 1 .. RelaySlots : CreateReturn(s, TRUE)
  \/ \E s \in 1 .. RelaySlots : StartReturn(s, TRUE)
  \/ \E s \in 1 .. RelaySlots : AttachReturn(s, TRUE, FALSE)
  \/ \E s \in 1 .. RelaySlots, f \in ClientFrames, fails \in BOOLEAN :
       /\ Relayed(RelaySlots) < MaxRelayed
       /\ WsMessage(s, f, fails)
  \/ \E s \in 1 .. RelaySlots, chunk \in Chunks(MaxRelayed) :
       /\ Relayed(RelaySlots) + Len(chunk) <= MaxRelayed
       /\ StreamData(s, chunk)
  \/ \E s \in 1 .. RelaySlots : StreamError(s)
  \/ \E s \in 1 .. RelaySlots : ClientClose(s)
  \/ \E s \in 1 .. RelaySlots : WsClosed(s)

SpecRelay == Init /\ [][NextRelay]_vars

\* SpecReap: the reaper beside the sessions.  ReapSlots connections of one
\* origin, one after the other, arriving early enough for their containers
\* to grow old within the run, clients closing at any moment, the shell free
\* to exit, periodic sweeps whose docker calls are free to fail, the clock
\* advancing by the retention time.
Early == now + RETENTION < ReapTicks * RETENTION
NextReap ==
  \/ Early /\ OthersClosed /\ Connect(1 .. ReapSlots, "ipA", MaxAttempts, FALSE)
  \/ \E s \in 1 .. ReapSlots : CreateReturn(s, TRUE)
  \/ \E s \in 1 .. ReapSlots : StartReturn(s, TRUE)
  \/ \E s \in 1 .. ReapSlots : AttachReturn(s, TRUE, FALSE)
  \/ \E s \in 1 .. ReapSlots : CatchRemoveReturn(s, FALSE)
  \/ \E s \in 1 .. ReapSlots : TimeoutFire(s)
  \/ \E s \in 1 .. ReapSlots : WsClosed(s)
  \/ \E s \in 1 .. ReapSlots : KillReturn(s, FALSE)
  \/ \E s \in 1 .. ReapSlots : RemoveReturn(s, FALSE)
  \/ \E s \in 1 .. ReapSlots : ContainerExit(s)
  \/ ReapStart
  \/ \E ok \in BOOLEAN : ReapListReturn(ok, FALSE)
  \/ \E fault \in BOOLEAN : ReapRemoveReturn(fault, FALSE)
  \/ Tick(RETENTION, ReapTicks * RETENTION)

SpecReap == Init /\ [][NextReap]_vars

\* FairReap: SpecReap with the scheduling the server relies on.  The clock
\* advances and due timers fire; setInterval keeps starting sweeps; a docker
\* call of the sweep that is issued again and again succeeds in the end.
FairReap ==
  /\ SpecReap
  /\ WF_vars(Tick(RETENTION, ReapTicks * RETENTION))
  /\ WF_vars(\E s \in 1 .. ReapSlots : TimeoutFire(s))
  /\ WF_vars(ReapStart)
  /\ SF_vars(ReapListReturn(TRUE, FALSE))
  /\ SF_vars(ReapRemoveReturn(FALSE, FALSE))

\* SpecSweep: sweeps in a row.  ReapSlots connections whose docker calls
\* succeed (those of an earlier connection returning first) and that stay
\* connected, sweeps whose docker calls are free to fail, each free to be
\* followed at once by the next, the clock advancing by the retention time.
NextSweep ==
  \/ Early /\ Connect(1 .. ReapSlots, "ipA", MaxAttempts, FALSE)
  \/ \E s \in 1 .. ReapSlots : InOrder(s) /\ CreateReturn(s, TRUE)
  \/ \E s \in 1 .. ReapSlots : InOrder(s) /\ StartReturn(s, TRUE)
  \/ \E s \in 1 .. ReapSlots : InOrder(s) /\ AttachReturn(s, TRUE, FALSE)
  \/ \E s \in 1 .. ReapSlots : TimeoutFire(s)
  \/ ReapStart
  \/ \E ok \in BOOLEAN, again \in BOOLEAN : ReapListReturn(ok, again)
  \/ \E fault \in BOOLEAN, again \in BOOLEAN : ReapRemoveReturn(fault, again)
  \/ Tick(RETENTION, ReapTicks * RETENTION)

SpecSweep == Init /\ [][NextSweep]_vars

\* SpecShutdown: SIGTERM beside the sessions.  ShutSlots connections of one
\* origin whose docker calls succeed (those of an earlier connection
\* returning first), clients free to close and shells to exit, then the
\* signal: the handler's docker calls free to fail or never to return, the
\* close handlers running beside it, the clock standing still (no container
\* is old enough for the handler's sweep).  Nothing happens after
\* process.exit(0).
NextShutdown ==
  \/ Alive /\ Connect(1 .. ShutSlots, "ipA", MaxAttempts, FALSE)
  \/ \E s \in 1 .. ShutSlots : Alive /\ InOrder(s) /\ CreateReturn(s, TRUE)
  \/ \E s \in 1 .. ShutSlots : Alive /\ InOrder(s) /\ StartReturn(s, TRUE)
  \/ \E s \in 1 .. ShutSlots :
       Alive /\ InOrder(s) /\ AttachReturn(s, TRUE, FALSE)
  \/ \E s \in 1 .. ShutSlots : Alive /\ WsClosed(s)
  \/ \E s \in 1 .. ShutSlots : Alive /\ KillReturn(s, FALSE)
  \/ \E s \in 1 .. ShutSlots : Alive /\ RemoveReturn(s, FALSE)
  \/ \E s \in 1 .. ShutSlots : Alive /\ ContainerExit(s)
  \/ Alive /\ Sigterm
  \/ \E fault \in BOOLEAN : Alive /\ SigKillReturn(fault)
  \/ \E fault \in BOOLEAN : Alive /\ SigRemoveReturn(fault)
  \/ Alive /\ SigCallHangs
  \/ \E ok \in BOOLEAN : Alive /\ ReapListReturn(ok, FALSE)

SpecShutdown == Init /\ [][NextShutdown]_vars

\* SpecIsolate: sessions beside each other.  IsoSlots connections of one
\* origin, every docker call free to fail, streams free to raise an error,
\* clients free to close and to send what the server cannot read: messages
\* that are no JSON, payloads that are no string, bytes that break the
\* WebSocket protocol; the clock standing still.
NextIsolate ==
  \/ Up /\ Connect(1 .. IsoSlots, "ipA", IsoAttempts, FALSE)
  \/ \E s \in 1 .. IsoSlots, ok \in BOOLEAN : Up /\ CreateReturn(s, ok)
  \/ \E s \in 1 .. IsoSlots, ok \in BOOLEAN : Up /\ StartReturn(s, ok)
  \/ \E s \in 1 .. IsoSlots, ok \in BOOLEAN : Up /\ AttachReturn(s, ok, FALSE)
  \/ \E s \in 1 .. IsoSlots, fault \in BOOLEAN : Up /\ CatchRemoveReturn(s, fault)
  \/ \E s \in 1 .. IsoSlots : Up /\ StreamError(s)
  \/ \E s \in 1 .. IsoSlots,
        f \in {Frame(FALSE, "none", NotAString, 0, 0),
               Frame(TRUE, "input", NotAString, 0, 0)} :
       /\ Up
       /\ Relayed(IsoSlots) < MaxRelayed
       /\ WsMessage(s, f, FALSE)
  \/ \E s \in 1 .. IsoSlots : Up /\ WsProtocolError(s)
  \/ \E s \in 1 .. IsoSlots : Up /\ WsClosed(s)
  \/ \E s \in 1 .. IsoSlots, fault \in BOOLEAN : Up /\ KillReturn(s, fault)
  \/ \E s \in 1 .. IsoSlots, fault \in BOOLEAN : Up /\ RemoveReturn(s, fault)

SpecIsolate == Init /\ [][NextIsolate]_vars

\* SpecCancel: the relay at the end of a session.  RelaySlots connections
\* of one origin, one after the other, whose docker calls succeed, 'input'
\* frames and shell output (MaxRelayed frames and bytes in all), the session
\* timeout, the client free to close, the clock advancing by the session
\* timeout.
NextCancel ==
  \/ OthersClosed /\ Connect(1 .. RelaySlots, "ipA", MaxAttempts, FALSE)
  \/ \E s \in 1 .. RelaySlots : CreateReturn(s, TRUE)
  \/ \E s \in 1 .. RelaySlots : StartReturn(s, TRUE)
  \/ \E s \in 1 .. RelaySlots : AttachReturn(s, TRUE, FALSE)
  \/ \E s \in 1 .. RelaySlots, d \in Payloads :
       /\ Relayed(RelaySlots) < MaxRelayed
       /\ WsMessage(s, Frame(TRUE, "input", d, 0, 0), FALSE)
  \/ \E s \in 1 .. RelaySlots, chunk \in Chunks(MaxRelayed) :
       /\ Relayed(RelaySlots) + Len(chunk) <= MaxRelayed
       /\ StreamData(s, chunk)
  \/ \E s \in 1 .. RelaySlots : TimeoutFire(s)
  \/ \E s \in 1 .. RelaySlots : ClientClose(s)
  \/ \E s \in 1 .. RelaySlots : WsClosed(s)
  \/ Tick(SESSION_TIMEOUT, MainTicks * SESSION_TIMEOUT)

SpecCancel == Init /\ [][NextCancel]_vars

\* SpecResize: resizing beside the session's life.  RelaySlots connections
\* of one origin, one after the other, whose provisioning and teardown
\* succeed, 'resize' frames (MaxRelayed in all) whose docker call is free to
\* fail, the shell free to exit and the client to close.
NextResize ==
  \/ OthersClosed /\ Connect(1 .. RelaySlots, "ipA", MaxAttempts, FALSE)
  \/ \E s \in 1 .. RelaySlots : CreateReturn(s, TRUE)
  \/ \E s \in 1 .. RelaySlots : StartReturn(s, TRUE)
  \/ \E s \in 1 .. RelaySlots : AttachReturn(s, TRUE, FALSE)
  \/ \E s \in 1 .. RelaySlots, c \in {0, 80} :
       /\ Relayed(RelaySlots) < MaxRelayed
       /\ WsMessage(s, Frame(TRUE, "resize", NotAString, c, 24), FALSE)
  \/ \E s \in 1 .. RelaySlots, fault \in BOOLEAN : ResizeReturn(s, fault)
  \/ \E s \in 1 .. RelaySlots : ContainerExit(s)
  \/ \E s \in 1 .. RelaySlots : ClientClose(s)
  \/ \E s \in 1 .. RelaySlots : WsClosed(s)
  \/ \E s \in 1 .. RelaySlots : KillReturn(s, FALSE)
  \/ \E s \in 1 .. RelaySlots : RemoveReturn(s, FALSE)

SpecResize == Init /\ [][NextResize]_vars

\* SpecRegistry: the registry under session ids that may repeat.  IsoSlots
\* connections of one origin made in the same millisecond, the id of a later
\* one free to come out as that of an earlier one, the docker calls
\* succeeding, clients free to close.
NextRegistry ==
  \/ \E clash \in BOOLEAN : Connect(1 .. IsoSlots, "ipA", IsoAttempts, clash)
  \/ \E s \in 1 .. IsoSlots : CreateReturn(s, TRUE)
  \/ \E s \in 1 .. IsoSlots : StartReturn(s, TRUE)
  \/ \E s \in 1 .. IsoSlots : AttachReturn(s, TRUE, FALSE)
  \/ \E s \in 1 .. IsoSlots : ClientClose(s)
  \/ \E s \in 1 .. IsoSlots : WsClosed(s)
  \/ \E s \in 1 .. IsoSlots : KillReturn(s, FALSE)
  \/ \E s \in 1 .. IsoSlots : RemoveReturn(s, FALSE)

SpecRegistry == Init /\ [][NextRegistry]_vars

\* SpecSweepAll: a sweep that has several containers to remove.  IsoSlots
\* connections of one origin are provisioned in order at the start, their
\* sessions time out, the clock passes the retention, removals may fail.
NextSweepAll ==
  \/ Early /\ Connect(1 .. IsoSlots, "ipA", MaxAttempts, FALSE)
  \/ \E s \in 1 .. IsoSlots : InOrder(s) /\ CreateReturn(s, TRUE)
  \/ \E s \in 1 .. IsoSlots : InOrder(s) /\ StartReturn(s, TRUE)
  \/ \E s \in 1 .. IsoSlots : InOrder(s) /\ AttachReturn(s, TRUE, FALSE)
  \/ \E s \in 1 .. IsoSlots : TimeoutFire(s)
  \/ ReapStart
  \/ \E ok \in BOOLEAN : ReapListReturn(ok, FALSE)
  \/ \E fault \in BOOLEAN : ReapRemoveReturn(fault, FALSE)
  \/ Tick(RETENTION, ReapTicks * RETENTION)

SpecSweepAll == Init /\ [][NextSweepAll]_vars

RECURSIVE Arrived(_)
\* Frames the first n connections have received from their clients.
Arrived(n) ==
  IF n = 0 THEN 0 ELSE relay[n].lost + relay[n].frames + Arrived(n - 1)

\* SpecEarly: frames of the client that arrive before and after the message
\* handler is installed.  RelaySlots connections of one origin, one after
\* the other, provisioning succeeds, MaxRelayed frames in all.
NextEarly ==
  \/ OthersClosed /\ Connect(1 .. RelaySlots, "ipA", MaxAttempts, FALSE)
  \/ \E s \in 1 .. RelaySlots : CreateReturn(s, TRUE)
  \/ \E s \in 1 .. RelaySlots : StartReturn(s, TRUE)
  \/ \E s \in 1 .. RelaySlots : AttachReturn(s, TRUE, FALSE)
  \/ \E s \in 1 .. RelaySlots, f \in ClientFrames :
       /\ Arrived(RelaySlots) < MaxRelayed
       /\ WsMessageEarly(s, f)
  \/ \E s \in 1 .. RelaySlots, f \in ClientFrames, fails \in BOOLEAN :
       /\ Arrived(RelaySlots) < MaxRelayed
       /\ WsMessage(s, f, fails)
  \/ \E s \in 1 .. RelaySlots : ClientClose(s)
  \/ \E s \in 1 .. RelaySlots : WsClosed(s)
  \/ \E s \in 1 .. RelaySlots : KillReturn(s, FALSE)
  \/ \E s \in 1 .. RelaySlots : RemoveReturn(s, FALSE)

SpecEarly == Init /\ [][NextEarly]_vars

\* SpecGreet: the first frames of a session.  RelaySlots connections of one
\* origin, one after the other, every docker call of provisioning free to
\* fail, the client free to close at any moment (ws.send on a socket that
\* is not open throwing or not), shell output (MaxRelayed bytes in all).
NextGreet ==
  \/ OthersClosed /\ Connect(1 .. RelaySlots, "ipA", MaxAttempts, FALSE)
  \/ \E s \in 1 .. RelaySlots, ok \in BOOLEAN : CreateReturn(s, ok)
  \/ \E s \in 1 .. RelaySlots, ok \in BOOLEAN : StartReturn(s, ok)
  \/ \E s \in 1 .. RelaySlots, ok \in BOOLEAN, throws \in BOOLEAN :
       AttachReturn(s, ok, throws)
  \/ \E s \in 1 .. RelaySlots : CatchRemoveReturn(s, FALSE)
  \/ \E s \in 1 .. RelaySlots, chunk \in Chunks(MaxRelayed) :
       /\ Relayed(RelaySlots) + Len(chunk) <= MaxRelayed
       /\ StreamData(s, chunk)
  \/ \E s \in 1 .. RelaySlots : ClientClose(s)
  \/ \E s \in 1 .. RelaySlots : WsClosed(s)
  \/ \E s \in 1 .. RelaySlots : KillReturn(s, FALSE)
  \/ \E s \in 1 .. RelaySlots : RemoveReturn(s, FALSE)

SpecGreet == Init /\ [][NextGreet]_vars

\* ------------------------------------------------------------ properties
ProvisionFailedAt(s) ==
  Has(log[s], "createFail") \/ Has(log[s], "startFail") \/ Has(log[s], "attachFail")
Registered(o) == {k \in DOMAIN activeSessions : activeSessions[k].ip = o}
\* Sessions admitted while another attempt of their origin was provisioning.
Raced(o) == {k \in Registered(o) : Has(log[k], "admitRace")}
\* No docker call of the connection failed for a reason of the backend's own.
NoBackendFault(s) ==
  /\ ~ProvisionFailedAt(s)
  /\ ~Has(log[s], "rmForceFault")
  /\ ~Has(log[s], "killFault")
  /\ ~Has(log[s], "removeFault")
ProvisionFailed(s) == ProvisionFailedAt(s)
\* A connection attempt was handled in this step.
Attempted == lastAttempt'.n # lastAttempt.n

\* C1 (as claimed): for every origin, the registered sessions of that origin
\* never number more than MAX_SESSIONS_PER_IP, whatever the interleaving of
\* the attempts.
C1_CapNeverExceeded ==
  \A o \in Origins : Cardinality(Registered(o)) <= MAX_SESSIONS_PER_IP

\* C1 (amended): for every origin, the registered sessions number at most the
\* cap plus the registered sessions that were admitted while an earlier
\* attempt of the origin was still provisioning; without such overlap the
\* cap holds.
C1_CapUpToRaces ==
  \A o \in Origins :
    Cardinality(Registered(o)) <= MAX_SESSIONS_PER_IP + Cardinality(Raced(o))

C1_Witness ==
  /\ Cardinality(Registered("ipA")) = MAX_SESSIONS_PER_IP
  /\ Raced("ipA") = {}
  /\ lastAttempt.outcome = "cap"

\* C2: for every session the close handler's cleanup (stream.end, kill and
\* remove, activeSessions.delete) starts at most once, whatever the order of
\* client close, timeout and stream error.
C2_TeardownAtMostOnce ==
  \A s \in Slots : Count(log[s], "teardown") <= 1

C2_Witness ==
  \E s \in Slots :
    /\ td[s] = "done"
    /\ Has(log[s], "notice")
    /\ stream[s] = "errored"

\* C3: once a registered session's cleanup has completed, the registry holds
\* no entry for it and its container is gone from the backend.  Stated for
\* the sessions none of whose docker calls met a fault of the backend.
C3_TeardownDestroys ==
  \A s \in Slots :
    (td[s] = "done" /\ NoBackendFault(s)) =>
      /\ s \notin DOMAIN activeSessions
      /\ container[s] = "removed"

\* C4: a connection that passed admission and whose channel has closed ends
\* with no registry entry and no container.  Stated on the states where the
\* server has nothing left to do for the connection: no handler slice, docker
\* call or timer of it is pending and its 'close' event has been emitted,
\* and for the connections none of whose docker calls met a fault.
Settled(s) ==
  /\ ws[s] = "CLOSED"
  /\ pc[s] \in {"active", "done"}
  /\ td[s] \in {"none", "done"}
  /\ timeout[s].state # "pending"
C4_ClosedIsCleaned ==
  \A s \in Slots :
    (Settled(s) /\ NoBackendFault(s)) =>
      /\ s \notin DOMAIN activeSessions
      /\ container[s] \in {"none", "removed"}

\* C5: when start fails after create succeeded, the container is removed
\* before the error frame is sent.
C5_RemovedBeforeError ==
  \A s \in Slots :
    (Has(log[s], "startFail") /\ Has(log[s], "error")) =>
      /\ Has(log[s], "rmForceOk")
      /\ First(log[s], "rmForceOk") < First(log[s], "error")

\* C6: when create, start or attach fails the session is never registered,
\* no 'connected' frame is sent, at most one 'error' frame is sent, and a
\* forced removal is issued when create had returned a container.
C6_ProvisionFailure ==
  \A s \in Slots :
    ProvisionFailed(s) =>
      /\ s \notin DOMAIN activeSessions
      /\ ~Has(log[s], "registered")
      /\ ~Has(log[s], "connected")
      /\ Count(log[s], "error") <= 1
      /\ Has(log[s], "createOk") => Has(log[s], "rmForce")

C6_Witness ==
  \E s \in Slots :
    /\ Has(log[s], "attachFail")
    /\ Has(log[s], "error")
    /\ Has(log[s], "rmForceOk")

\* C7: a session whose timeout fired with the channel open got exactly one
\* timeout notice, then ws.close(), and once its cleanup has completed its
\* container is destroyed and its registry entry removed.  Stated for the
\* sessions none of whose docker calls met a fault of the backend.
C7_TimeoutCleans ==
  \A s \in Slots :
    (Has(log[s], "notice") /\ NoBackendFault(s)) =>
      /\ Count(log[s], "notice") = 1
      /\ log[s][First(log[s], "notice") + 1] = "close"
      /\ td[s] = "done" => /\ s \notin DOMAIN activeSessions
                           /\ container[s] = "removed"

\* C8: a rejected attempt (rate limit or session cap) sends exactly one
\* 'error' frame and closes the channel; it creates no container and leaves
\* the registry and every session as they were.
C8_RejectionStep ==
  (Attempted /\ lastAttempt'.outcome \in {"rate", "cap"}) =>
    /\ lastAttempt'.frames = <<"error">>
    /\ lastAttempt'.closed
    /\ UNCHANGED <<activeSessions, container, pc, ws, stream>>
C8_RejectionIsClean == [][C8_RejectionStep]_vars

C8_Witness ==
  /\ lastAttempt.outcome = "rate"
  /\ Cardinality(DOMAIN activeSessions) >= MAX_SESSIONS_PER_IP

\* C9: an attempt that passes the rate limiter is rejected for the session
\* cap exactly when the registry holds, at the check, at least
\* MAX_SESSIONS_PER_IP sessions of its origin; a rejected attempt creates no
\* container.
C9_CapStep ==
  (Attempted /\ lastAttempt'.outcome # "rate") =>
    /\ lastAttempt'.outcome = "cap" <=>
         Cardinality(Registered(lastAttempt'.ip)) >= MAX_SESSIONS_PER_IP
    /\ lastAttempt'.outcome = "cap" => UNCHANGED <<container, pc>>
C9_CapRejectsIffFull == [][C9_CapStep]_vars

C9_Witness ==
  /\ lastAttempt.outcome = "cap"
  /\ Cardinality(Registered("ipA")) = MAX_SESSIONS_PER_IP
  /\ \A s \in Slots : pc[s] # "idle" => s \in DOMAIN activeSessions

\* C10: in every 60 s window of an origin at most RATE_BUDGET attempts pass
\* the limiter, and an attempt made while the window's passes have reached
\* the budget is rejected as rate-limited.
C10_RateStep ==
  /\ \A o \in Origins : monitor'[o].passes <= RATE_BUDGET
  /\ \A o \in Origins :
       ( /\ Attempted
         /\ lastAttempt'.ip = o
         /\ monitor[o].passes >= RATE_BUDGET
         /\ now <= monitor[o].open + RATE_WINDOW ) =>
       lastAttempt'.outcome = "rate"
C10_BudgetPerWindow == [][C10_RateStep]_vars

C10_Witness ==
  \E o \in Origins :
    /\ lastAttempt.outcome = "rate"
    /\ lastAttempt.ip = o
    /\ monitor[o].passes = RATE_BUDGET
    /\ monitor[o].open > 0

\* C11 (as claimed): an attempt that arrives exactly at the reset time of its
\* origin's window (now = resetTime) passes the rate limiter, the counter
\* being reset first, even when the old window's budget was used up.
C11_BoundaryStep ==
  \A o \in Origins :
    ( /\ Attempted
      /\ lastAttempt'.ip = o
      /\ o \in DOMAIN wsLimiter
      /\ now = wsLimiter[o].resetTime ) =>
    /\ lastAttempt'.outcome # "rate"
    /\ wsLimiter'[o].count = 1
C11_BoundaryIsNewWindow == [][C11_BoundaryStep]_vars

\* The count of origin o that checkRateLimit tests: zero for an unknown
\* origin and after the lazy reset.
CountAtCheck(o) ==
  IF o \in DOMAIN wsLimiter /\ ~(now > wsLimiter[o].resetTime)
  THEN wsLimiter[o].count ELSE 0

\* C12 (as claimed): an attempt that admission rejects, as rate-limited or for
\* the session cap, leaves the limiter's counters unchanged.
C12_RejectStep ==
  (Attempted /\ lastAttempt'.outcome \in {"rate", "cap"}) =>
    UNCHANGED wsLimiter
C12_CountsOnlyAllow == [][C12_RejectStep]_vars

\* C12 (amended): the origin's counter is incremented exactly when the
\* attempt passes the rate limiter, that is when it is admitted and when it
\* is rejected for the session cap; an attempt rejected as rate-limited
\* leaves every counter unchanged, and no attempt touches another origin's
\* counter.
C12_PassStep ==
  Attempted =>
    LET o == lastAttempt'.ip
    IN /\ IF lastAttempt'.outcome = "rate"
          THEN UNCHANGED wsLimiter
          ELSE wsLimiter'[o].count = CountAtCheck(o) + 1
       /\ \A q \in DOMAIN wsLimiter \ {o} :
            q \in DOMAIN wsLimiter' /\ wsLimiter'[q] = wsLimiter[q]
C12_CountsEveryPass == [][C12_PassStep]_vars

C12_Witness ==
  /\ lastAttempt.outcome = "cap"
  /\ lastAttempt.ip = "ipA"
  /\ wsLimiter["ipA"].count = MAX_SESSIONS_PER_IP + 1
  /\ now > 0

\* C13: an Active session whose attached stream has raised an error is
\* closing: the server has closed its channel or started its cleanup, without
\* waiting for the client to close or for the timeout.
C13_StreamErrorCloses ==
  \A s \in Slots :
    (pc[s] = "active" /\ stream[s] = "errored") =>
      ws[s] # "OPEN" \/ td[s] # "none"

\* C19: when the cleanup of a session finds its container already stopped
\* (container.kill() is refused because the container is not running), the
\* container is still removed from the backend.
C19_StoppedIsStillRemoved ==
  \A s \in Slots :
    (td[s] = "done" /\ Has(log[s], "killRefused")) =>
      container[s] = "removed"

\* C14: when the write of an 'input' frame's payload to the attached stream
\* fails (stream.write throws, or the stream raises the error later), the
\* session is ended: the server has closed its channel or started its
\* cleanup.
C14_WriteFailureEnds ==
  \A s \in Slots :
    (Has(log[s], "writeError") \/ Has(log[s], "writeThrow")) =>
      ws[s] # "OPEN" \/ td[s] # "none"

\* C15: in an Active session whose stream is still writable and whose channel
\* is still open, the byte sequences written to the stream are the payloads
\* of the 'input' frames received, in order, and the payloads of the 'output'
\* frames sent are the chunks read from the stream, in order and byte for
\* byte.
InputsRelayed(s) ==
  relay[s].written =
    [i \in 1 .. Len(relay[s].rx) |-> Utf8FromString(relay[s].rx[i])]
OutputsRelayed(s) ==
  [i \in 1 .. Len(relay[s].sent) |-> Utf8FromString(relay[s].sent[i])]
    = relay[s].chunks
Relaying(s) == pc[s] = "active" /\ stream[s] = "open" /\ ws[s] = "OPEN"
InputsFaithful == \A s \in Slots : Relaying(s) => InputsRelayed(s)
C15_RelayFaithful ==
  \A s \in Slots : Relaying(s) => InputsRelayed(s) /\ OutputsRelayed(s)

SecondSweepStep ==
  /\ reap.pc \in {"listing", "removing"}
  /\ reap.prev.ran
  /\ reap' # reap
SecondRun == IF reap'.pc = "listing" THEN reap'.prev ELSE reap'.run
\* No clock advance and no container created since the first sweep began.
NothingBetween ==
  reap.prev.startNow = now /\ reap.prev.startMade = Made

\* C20 (as claimed): of two sweeps in a row with no container created in
\* between, the second issues no removal.
C20_SecondStep ==
  (SecondSweepStep /\ NothingBetween) => SecondRun.tried = {}
C20_CleanStep ==
  SecondSweepStep =>
    /\ SecondRun.tried \cap reap.prev.removed = {}
    /\ (NothingBetween /\ ~reap.prev.err) => SecondRun.tried = {}
NoSigFault(k) ==
  ~Has(log[k], "sigKillFault") /\ ~Has(log[k], "sigRemoveFault")

\* C16: when the process has exited after SIGTERM, every session that was
\* registered when the signal arrived has its channel closed and its
\* container removed from the backend.  Stated for the sessions none of
\* whose docker calls met a fault of the backend.
C16_ExitAfterDestroy ==
  sig.pc = "exited" =>
    \A k \in sig.snapshot :
      (NoBackendFault(k) /\ NoSigFault(k)) =>
        /\ ws[k] # "OPEN"
        /\ container[k] = "removed"

\* A step of the SIGTERM handler: one of the calls it awaits returns.
ShutdownStep ==
  \/ \E fault \in BOOLEAN : SigKillReturn(fault)
  \/ \E fault \in BOOLEAN : SigRemoveReturn(fault)
  \/ \E ok \in BOOLEAN : ReapListReturn(ok, FALSE)
  \/ \E fault \in BOOLEAN : ReapRemoveReturn(fault, FALSE)

\* C17: after SIGTERM the process exits even when a kill or remove call
\* never returns: as long as it has not exited, the handler has a step left
\* to take towards process.exit.
C17_ShutdownProceeds ==
  sig.pc \notin {"idle", "exited"} => ENABLED ShutdownStep

\* ------------------------------------------------------------ C21
Age(c) == now - createdAt[c]
Expired(c) == Age(c) > RETENTION
\* The sweep's loop goes on in this step: the listing has returned the
\* containers, or the removal it awaited has succeeded.
LoopRuns ==
  \/ \E again \in BOOLEAN : ReapListReturn(TRUE, again)
  \/ /\ reap.pc = "removing"
     /\ Existing(reap.cur)
     /\ \E again \in BOOLEAN : ReapRemoveReturn(FALSE, again)
\* The containers the loop decides about in this step.
Passed ==
  (IF reap.pc = "listing" THEN {c \in Slots : Existing(c)} ELSE reap.todo)
    \ (IF reap'.pc = "removing" THEN reap'.todo ELSE {})
C21_Step ==
  /\ LoopRuns =>
       \A c \in Passed :
         (reap'.pc = "removing" /\ reap'.cur = c) <=> Expired(c)
  /\ reap' # reap =>
       \A c \in Slots :
         /\ container'[c] # container[c] =>
              Expired(c) /\ container'[c] = "removed"
         /\ ~Expired(c) => stream'[c] = stream[c]
\* C21: a sweep issues a forced removal for a container its loop comes to
\* if and only if the container's age (the clock minus its created-at label)
\* is above one hour, and a step of a sweep changes no container other than
\* by removing one whose age is above one hour; containers at or below the
\* threshold are left as they are, registered session or not.
C21_RemovesIffExpired == [][C21_Step]_vars
\* A sweep awaits the forced removal of the expired container of a session
\* that is still registered.
C21_Witness ==
  /\ reap.pc = "removing"
  /\ Expired(reap.cur)
  /\ reap.cur \in DOMAIN activeSessions

\* ------------------------------------------------------------ C22
FailureEvents ==
  {"createFail", "startFail", "attachFail", "sendThrow", "rmForceFault",
   "rmForceRefused", "killFault", "killRefused", "removeFault",
   "removeRefused", "writeThrow", "writeError"}
\* This step handles a failure of connection s.
Failing(s) ==
  \/ \E i \in (Len(log[s]) + 1) .. Len(log'[s]) : log'[s][i] \in FailureEvents
  \/ stream'[s] = "errored" /\ stream[s] # "errored"
  \/ relay'[s].caught > relay[s].caught
  \/ sig'.pc = "crashed" /\ sig.pc # "crashed" /\ sig'.cur = s
\* What the server holds for connection u.
SessionState(u) ==
  <<IF u \in DOMAIN activeSessions THEN <<activeSessions[u]>> ELSE << >>,
    container[u], stream[u], timeout[u], pc[u], ws[u], td[u]>>
OthersUntouched(s) ==
  \A u \in Slots \ {s} : SessionState(u)' = SessionState(u)
\* A step that handles a failure of one connection leaves what the server
\* holds for every other connection as it was.
FailuresLeaveOthers ==
  [][\A s \in Slots : Failing(s) => OthersUntouched(s)]_vars
C22_Step ==
  \A s \in Slots :
    Failing(s) => OthersUntouched(s) /\ sig'.pc # "crashed"
\* C22: a failure inside one session (a docker call of its provisioning or
\* of its teardown failing, its stream raising an error, a client frame
\* the server cannot read) changes nothing of any other session (registry
\* entry, container, stream, timer) and leaves the process running to
\* admit and serve the others.
C22_FailureContained == [][C22_Step]_vars

\* ------------------------------------------------------------ C23
KillEvents == {"killOk", "killFault", "killRefused"}
RemoveEvents == {"removeOk", "removeFault", "removeRefused"}
\* Every e of es in seq comes after the first a, and a is there if one is.
AllAfter(seq, a, es) ==
  LET f == First(seq, a)
  IN \A i \in 1 .. Len(seq) : seq[i] \in es => f # 0 /\ f < i
\* C23: the teardown of a session ends the stream, then stops the
\* container, then removes it, then deletes the registry entry, in this
\* order for the steps it performs; while the kill or the removal is awaited
\* the session is still in the registry and counted for its origin.
C23_TeardownOrder ==
  \A s \in Slots :
    /\ AllAfter(log[s], "streamEnd", KillEvents \cup RemoveEvents)
    /\ AllAfter(log[s], "killOk", RemoveEvents)
    /\ Has(log[s], "unregistered") =>
         /\ \E e \in KillEvents : Has(log[s], e)
         /\ log[s][Len(log[s])] = "unregistered"
         /\ Count(log[s], "unregistered") = 1
    /\ td[s] \in {"killing", "removing"} =>
         /\ stream[s] # "open"
         /\ s \in userSessions(clientIp[s])
         /\ ~Has(log[s], "unregistered")
\* A teardown that went through every step.
C23_Witness ==
  \E s \in Slots :
    /\ td[s] = "done"
    /\ Has(log[s], "removeOk")
    /\ s \notin DOMAIN activeSessions

\* ------------------------------------------------------------ C24
\* How far the session of connection s has come: 1 Provisioning, 2 Active,
\* 3 Closing (its close handler awaits a docker call), 4 Closed (the close
\* handler has returned, or provisioning failed).
Stage(s) ==
  IF pc[s] = "idle" THEN 0
  ELSE IF pc[s] \in Provisioning THEN 1
  ELSE IF pc[s] = "active" /\ td[s] = "none" THEN 2
  ELSE IF td[s] \in {"killing", "removing"} THEN 3
  ELSE 4
RegisteredInOrder(s) ==
  /\ First(log[s], "createOk") # 0
  /\ First(log[s], "createOk") < First(log[s], "startOk")
  /\ First(log[s], "startOk") < First(log[s], "attachOk")
  /\ First(log[s], "attachOk") < First(log[s], "registered")
  /\ Count(log[s], "registered") = 1
\* This step stores the session of connection s in the registry.
Registers(s) ==
  s \in DOMAIN activeSessions' /\ s \notin DOMAIN activeSessions
C24_Step ==
  \A s \in Slots :
    /\ Registers(s) => RegisteredInOrder(s)'
    /\ Stage(s)' >= Stage(s)
    /\ td[s] # "none" =>
         /\ td'[s] # "none"
         /\ s \notin DOMAIN activeSessions => s \notin DOMAIN activeSessions'
\* C24: a session is in the registry only after docker.createContainer,
\* container.start and container.attach have succeeded, in this order, and
\* is stored once; a session only moves forward along Provisioning, Active,
\* Closing, Closed, and once its teardown has begun it is never Active and
\* never stored again.
C24_ForwardOnly == [][C24_Step]_vars
\* A session that was registered is being torn down.
C24_Witness ==
  \E s \in Slots :
    /\ Stage(s) = 3
    /\ Has(log[s], "registered")
    /\ s \in DOMAIN activeSessions

\* ------------------------------------------------------------ C25
\* container.kill() calls issued for the container of connection k: one by
\* each run of the close handler, one by the SIGTERM loop when it comes to k.
KillsIssued(k) == Count(log[k], "teardown") + Count(log[k], "sigterm")
\* C25: when SIGTERM arrives and the close handler of a session runs as
\* well, only one of the two stops and removes the session's container:
\* the kill-and-remove sequence is started once for each session.
C25_OneTeardownAtShutdown == \A k \in Slots : KillsIssued(k) <= 1

\* ------------------------------------------------------------ C26
\* The session's timer has fired, or its socket has closed.
Cancelled(s) == timeout[s].state = "fired" \/ ws[s] = "CLOSED"
\* Once the timer has fired or the socket has closed, no 'output' frame is
\* sent any more.
OutputStopsAtOnce ==
  [][\A s \in Slots : Cancelled(s) => relay'[s].sent = relay[s].sent]_vars
C26_Step ==
  \A s \in Slots :
    Cancelled(s) =>
      /\ relay'[s].written = relay[s].written
      /\ relay'[s].sent = relay[s].sent
\* C26: once the timeout of a session has fired or its client channel has
\* closed, nothing more is written to the container stream for an 'input'
\* frame and no 'output' frame is sent to the client any more.
C26_RelayStops == [][C26_Step]_vars

\* ------------------------------------------------------------ C27
\* This step hands bytes to the stream of connection s: they are written,
\* or the write fails later.
Wrote(s) ==
  \/ relay'[s].written # relay[s].written
  \/ Count(log'[s], "writeError") > Count(log[s], "writeError")
Routed(s, f) ==
  /\ f.type = "resize" => ~Wrote(s)
  /\ relay'[s].resizes # relay[s].resizes <=>
       f.parses /\ f.type = "resize" /\ f.cols # 0 /\ f.rows # 0
  /\ stream[s] # "open" => ~Wrote(s) /\ stream'[s] = stream[s]
C27_AnyStep ==
  \A s \in Slots, f \in ClientFrames, fails \in BOOLEAN :
    WsMessage(s, f, fails) =>
      /\ Wrote(s) <=> (f.parses /\ f.type = "input" /\ stream[s] = "open")
      /\ Routed(s, f)
\* C27: a client frame makes the server write to the container stream if
\* and only if its type is 'input' and the stream is writable then; a
\* 'resize' frame goes to container.resize and is never written, an 'input'
\* frame that finds the stream not writable is dropped.
C27_WriteIffInput == [][C27_AnyStep]_vars
C27_TextStep ==
  \A s \in Slots, f \in ClientFrames, fails \in BOOLEAN :
    WsMessage(s, f, fails) =>
      /\ Wrote(s) <=> (/\ f.parses
                        /\ f.type = "input"
                        /\ f.data # NotAString
                        /\ stream[s] = "open")
      /\ Routed(s, f)
\* C27 amended: as C27, for 'input' frames whose data is a string; the
\* data of an 'input' frame that is no string is not written (stream.write
\* throws, the handler's catch logs it).
C27_WriteIffInputText == [][C27_TextStep]_vars
\* An 'input' frame has been written and a 'resize' frame routed.
C27_Witness ==
  \E s \in Slots :
    /\ Len(relay[s].written) = 1
    /\ relay[s].resizes = 1

\* ------------------------------------------------------------ C28
\* This step reads a chunk from the stream of connection s.
ReadsChunk(s) == Len(relay'[s].chunks) = Len(relay[s].chunks) + 1
C28_Step ==
  \A s \in Slots :
    /\ relay'[s].sent # relay[s].sent =>
         /\ ws[s] = "OPEN"
         /\ ReadsChunk(s)
         /\ relay'[s].sent =
              Append(relay[s].sent,
                     Utf8ToString(relay'[s].chunks[Len(relay'[s].chunks)]))
    /\ ReadsChunk(s) /\ ws[s] # "OPEN" => relay'[s].sent = relay[s].sent
\* C28: a chunk read from the container stream while the socket is not open
\* is dropped; an 'output' frame is sent only while the socket is open, in
\* the step that reads its chunk and for that chunk alone, so that a dropped
\* chunk is not kept and never sent later.
C28_ClosedChannelDrops == [][C28_Step]_vars
\* One chunk was sent, a later one was read after the socket left OPEN.
C28_Witness ==
  \E s \in Slots :
    /\ Len(relay[s].sent) = 1
    /\ Len(relay[s].chunks) = 2
    /\ ws[s] # "OPEN"

\* ------------------------------------------------------------ C29
\* This step handles the rejection of a resize call of connection s.
ResizeFailed(s) == relay'[s].resizeErrs > relay[s].resizeErrs
C29_Step ==
  \A s \in Slots :
    ResizeFailed(s) =>
      /\ SessionState(s)' = SessionState(s)
      /\ log'[s] = log[s]
      /\ relay'[s].sent = relay[s].sent
      /\ sig' = sig
\* C29: a container.resize call that fails is not fatal to its session:
\* the step that handles the failure leaves the session's state (Active
\* when it was), its registry entry, container, stream and timer as they
\* were and sends no frame to the client.
C29_ResizeFailureHarmless == [][C29_Step]_vars
\* A resize call has failed on a session that is Active, registered and
\* connected, its container running.
C29_Witness ==
  \E s \in Slots :
    /\ relay[s].resizeErrs >= 1
    /\ Stage(s) = 2
    /\ s \in DOMAIN activeSessions
    /\ ws[s] = "OPEN"
    /\ container[s] = "running"
    /\ stream[s] = "open"

\* ------------------------------------------------------------ C30
DestroyFailures == {"killFault", "killRefused", "removeFault", "removeRefused"}
\* What this step adds to the log of connection s.
Logged(s) == {log'[s][i] : i \in (Len(log[s]) + 1) .. Len(log'[s])}
C30_Step ==
  \A s \in Slots :
    /\ Logged(s) \cap DestroyFailures # {} =>
         /\ Logged(s) \subseteq DestroyFailures \cup {"unregistered"}
         /\ relay'[s].sent = relay[s].sent
         /\ ws'[s] = ws[s]
         /\ td'[s] = "done"
         /\ s \notin DOMAIN activeSessions'
    /\ td[s] = "done" =>
         /\ td'[s] = "done"
         /\ Logged(s) \cap (KillEvents \cup RemoveEvents) = {}
\* C30: when container.kill() or container.remove() fails in the teardown
\* of a session the failure is logged and nothing more: no frame goes to the
\* client, the teardown issues no further kill or removal, and the session
\* is deleted from the registry all the same.
C30_DestroyFailureLogged == [][C30_Step]_vars
\* A teardown whose removal failed has ended.
C30_Witness ==
  \E s \in Slots :
    /\ Has(log[s], "removeFault")
    /\ td[s] = "done"
    /\ s \notin DOMAIN activeSessions

\* ------------------------------------------------------------ C31
C31_Step ==
  \A k \in DOMAIN activeSessions :
    k \in DOMAIN activeSessions' => activeSessions'[k] = activeSessions[k]
\* C31: storing a session under an id the registry already holds fails and
\* leaves the entry as it was: no step replaces the entry of a registered
\* session by that of another.
C31_RegisterNeverReplaces == [][C31_Step]_vars

\* ------------------------------------------------------------ C32
\* 'connected' frames sent to connection s.
Greetings(s) == Count(log[s], "connected")
\* A 'connected' frame follows the registration, none goes to a connection
\* whose provisioning failed, and no 'output' frame was sent without one.
GreetedInOrder(s) ==
  /\ Greetings(s) <= 1
  /\ Greetings(s) = 1 =>
       /\ First(log[s], "registered") # 0
       /\ First(log[s], "registered") < First(log[s], "connected")
  /\ ProvisionFailedAt(s) => Greetings(s) = 0
  /\ relay[s].sent # << >> => Greetings(s) = 1
\* This step sends an 'output' frame to connection s.
SendsOutput(s) == relay'[s].sent # relay[s].sent
C32_AnyStep ==
  \A s \in Slots :
    /\ GreetedInOrder(s)'
    /\ Has(log'[s], "registered") => Greetings(s)' = 1
    /\ SendsOutput(s) => Greetings(s) = 1
\* C32: every session is sent exactly one 'connected' frame, after it has
\* been stored in the registry and before every 'output' frame; a session
\* whose provisioning failed is sent none.
C32_OneGreeting == [][C32_AnyStep]_vars
C32_OpenStep ==
  \A s \in Slots :
    /\ GreetedInOrder(s)'
    /\ Has(log'[s], "registered") /\ ~Has(log'[s], "sendThrow") /\ ws'[s] = "OPEN"
         => Greetings(s)' = 1
    /\ Registers(s) /\ ws[s] = "OPEN" => Greetings(s)' = 1
    /\ SendsOutput(s) => Greetings(s) = 1
\* What the code does guarantee: at most one 'connected' frame per session,
\* exactly one when the socket is open at the moment the session is stored in
\* the registry, after the registration and before every 'output' frame, and
\* none for a connection whose provisioning failed.
GreetingIfOpen == [][C32_OpenStep]_vars
\* A session was greeted and then sent output.
C32_Witness ==
  \E s \in Slots :
    /\ Greetings(s) = 1
    /\ relay[s].sent # << >>

\* ------------------------------------------------------------ C33
\* The sweep returns in this step, after a removal it awaited.
SweepEndsAfterRemoval == reap.pc = "removing" /\ reap'.pc # "removing"
\* The listed containers the loop has not visited yet that are expired.
ExpiredUnvisited == {c \in reap.todo : Existing(c) /\ Old(c)}
C33_Step == SweepEndsAfterRemoval => ExpiredUnvisited = {}
\* C33: a removal that fails during a sweep does not keep the sweep from
\* removing the other expired containers of the listing: when the sweep
\* returns, no expired container of the listing is left unvisited.
C33_SweepVisitsAllExpired == [][C33_Step]_vars

\* ------------------------------------------------------------ C34
\* The SIGTERM handler has started.
ShuttingDown == sig.pc # "idle"
\* This step creates a container.
CreatesContainer == \E s \in Slots : container[s] = "none" /\ container'[s] # "none"
\* This step stores a session in the registry.
RegistersSession == \E k \in DOMAIN activeSessions' : k \notin DOMAIN activeSessions
C34_Step ==
  /\ sig.pc # "exited" /\ sig'.pc = "exited" => \A c \in Slots : ~Existing(c)'
  /\ ShuttingDown => ~CreatesContainer /\ ~RegistersSession
\* C34: when the process exits after SIGTERM no container of this server is
\* left in the backend, those of connections still provisioning at the
\* signal and of connections admitted after it included; once the handler
\* has started no container is created and no session is registered.
C34_ShutdownLeavesNothing == [][C34_Step]_vars

\* ------------------------------------------------------------ C35
\* This step is a removal of the sweep that takes container c away.
SweepRemoves(c) ==
  reap.pc = "removing" /\ reap.cur = c /\ Existing(c) /\ container'[c] = "removed"
\* The session of connection c is registered.
InRegistry(c) ==
  \E k \in DOMAIN activeSessions : activeSessions[k].conn = c
C35_Step ==
  \A c \in Slots : SweepRemoves(c) => ws[c] # "OPEN" \/ ~InRegistry(c)
\* C35: the sweep never removes the container of a session that is still
\* active: every container a sweep removes belongs to a session whose
\* socket is no longer open or to no registered session.
C35_SweepSparesActive == [][C35_Step]_vars

\* ------------------------------------------------------------ C36
\* This step writes to the container stream of connection s, or tries to.
WritesInput(s) ==
  \/ relay'[s].written # relay[s].written
  \/ Count(log'[s], "writeError") > Count(log[s], "writeError")
  \/ Count(log'[s], "writeThrow") > Count(log[s], "writeThrow")
\* Everything written to the stream of s came in a frame the message handler
\* received: the frames dropped before it was installed are not among them.
OnlyHandledWritten(s) == Len(relay[s].written) <= Len(relay[s].rx)
C36_Step ==
  \A s \in Slots :
    /\ pc[s] \in Provisioning => ~WritesInput(s)
    /\ WritesInput(s) => Has(log[s], "registered") /\ pc[s] = "active"
    /\ OnlyHandledWritten(s)'
\* C36: a client frame that arrives on a connection before its session is
\* active (create, start or attach in flight) is never written to the
\* container stream, at its arrival or later; input is written only to the
\* stream of a session that has been registered.
C36_EarlyFramesNeverWritten == [][C36_Step]_vars
\* A frame was dropped during provisioning and a later one written.
C36_Witness ==
  \E s \in Slots :
    /\ relay[s].lost > 0
    /\ relay[s].written # << >>

\* ------------------------------------------------------------ C37
\* Timeout notices sent to connection s.
Notices(s) == Count(log[s], "notice")
\* This step sends the timeout notice to connection s.
SendsNotice(s) == Count(log'[s], "notice") > Count(log[s], "notice")
C37_Step ==
  \A s \in Slots :
    /\ Notices(s)' <= 1
    /\ SendsNotice(s) => ws[s] = "OPEN"
    /\ Has(log'[s], "teardown") => timeout'[s].state # "pending"
\* C37: a session is sent at most one timeout notice and none once its
\* socket is no longer open: the close handler clears the timer, and the
\* timer's callback sends the notice only to an open socket.
C37_OneNoticeWhileOpen == [][C37_Step]_vars
\* A session was sent the notice, and its close handler has run since.
C37_Witness ==
  \E s \in Slots :
    /\ Notices(s) = 1
    /\ Has(log[s], "teardown")

\* ------------------------------------------------------------ C38
\* A frame the message handler does not act on: no JSON, a type it does not
\* know, or a 'resize' whose cols or rows is missing or zero.
Ignored(f) ==
  \/ ~f.parses
  \/ f.type \notin {"input", "resize"}
  \/ f.type = "resize" /\ (f.cols = 0 \/ f.rows = 0)
\* What a frame can change of the session of connection s; of the relay's
\* record everything but the count of frames handled and of exceptions the
\* handler's catch has logged.
SessionView(s) ==
  <<pc[s], ws[s], stream[s], container[s], timeout[s], td[s], log[s],
    relay[s].written, relay[s].sent, relay[s].resizes, relay[s].rx,
    {k \in DOMAIN activeSessions : activeSessions[k].conn = s}>>
C38_Step ==
  \A s \in Slots, f \in ClientFrames, fails \in BOOLEAN :
    WsMessage(s, f, fails) /\ Ignored(f) =>
      /\ SessionView(s)' = SessionView(s)
      /\ pc'[s] = "active"
      /\ relay'[s].frames = relay[s].frames + 1
\* C38: a client frame that cannot be parsed, has an unknown type, or is a
\* 'resize' with a missing or zero cols or rows leaves the session as it
\* is: nothing is written to the stream, no resize is issued, the session
\* stays active and registered, and no frame is sent to the client.
C38_IgnoredFrameChangesNothing == [][C38_Step]_vars
\* The handler has received a frame while nothing was written, resized or
\* logged: an ignored frame (or an unparsable one, which the catch counts).
C38_Witness ==
  \E s \in Slots :
    /\ relay[s].frames > 0
    /\ relay[s].rx = << >>
    /\ relay[s].resizes = 0
    /\ ~Has(log[s], "writeThrow")
====
